---------------------------- MODULE Spec2Model ----------------------------
(***************************************************************************)
(* A model of the Pokemon intro-animation engine of                        *)
(* src/src/pokemon_animation.c: the hosting task, the three launch entry   *)
(* points, the pool of PokemonAnimData slots (sAnims) and the catalogue of *)
(* sprite callbacks of sMonAnimFunctions.                                  *)
(*                                                                         *)
(* Every C function that takes a struct Sprite * is an operator on a       *)
(* context record c: the sprite it is called on together with the file's   *)
(* three static variables (sAnims, sAnimIdx, sIsSummaryAnim).  The         *)
(* operator's value is the context after the call.  Statements are         *)
(* translated in order as a chain of LET definitions c1, c2, ...           *)
(***************************************************************************)
EXTENDS Integers, Sequences, FiniteSets, TLC

VARIABLES
    sprites,          \* gSprites: sprite id -> struct Sprite (the fields used)
    gTasks,           \* gTasks: task id -> struct Task (the fields used)
    sAnims,           \* static struct PokemonAnimData sAnims[MAX_BATTLERS_COUNT]
    sAnimIdx,         \* static u8 sAnimIdx
    sIsSummaryAnim,   \* static bool32 sIsSummaryAnim
    phase,            \* position of the host's frame loop: "tasks" or "sprites"
    hist              \* history of launches, claims and callback calls

vars == <<sprites, gTasks, sAnims, sAnimIdx, sIsSummaryAnim, phase, hist>>

-----------------------------------------------------------------------------
(* Bounds of the model *)

\* Number of sprites of gSprites the host animates.
NumSprites == 2

\* Number of task slots of gTasks the host offers.
NumTasks == 2

\* The history counts callback calls of one animation up to this number.
MaxTicks == 260

(* Program constants *)

\* Capacity of sAnims.
MAX_BATTLERS_COUNT == 4

\* Number of back animation sets (BACK_ANIM_* without BACK_ANIM_NONE).
NUM_BACK_ANIMS == 25

\* Number of natures (sBackAnimNatureModTable).
NUM_NATURES == 25

SpriteIds == 1..NumSprites
TaskIds == 0..(NumTasks - 1)

-----------------------------------------------------------------------------
(* C integer arithmetic *)

\* Conversion of an int to s16 (two's complement, 16 bits).
S16(v) == ((v + 32768) % 65536) - 32768

\* Conversion of an int to u16.
U16(v) == v % 65536

\* Conversion of an int to u8.
U8(v) == v % 256

\* Conversion of an int to s8.
S8(v) == ((v + 128) % 256) - 128

Abs(v) == IF v < 0 THEN -v ELSE v

\* C's integer division: the quotient is truncated toward zero.
CDiv(a, b) ==
    IF (a >= 0) = (b > 0) THEN Abs(a) \div Abs(b) ELSE -(Abs(a) \div Abs(b))

\* C's remainder: it has the sign of the dividend.
CMod(a, b) == a - b * CDiv(a, b)

\* x >> n on a signed int of the build (arithmetic shift).
Asr(x, n) == x \div (2 ^ n)

-----------------------------------------------------------------------------
(* trig.c: gSineTable, Sin and Cos.  The table holds 256 + 64 entries of   *)
(* Q8.8 values, sin(i * pi / 128) truncated toward zero.                   *)

gSineTable == <<
       0,    6,   12,   18,   25,   31,   37,   43,   49,   56,   62,   68,   74,   80,   86,   92,
      97,  103,  109,  115,  120,  126,  131,  136,  142,  147,  152,  157,  162,  167,  171,  176,
     181,  185,  189,  193,  197,  201,  205,  209,  212,  216,  219,  222,  225,  228,  231,  234,
     236,  238,  241,  243,  244,  246,  248,  249,  251,  252,  253,  254,  254,  255,  255,  255,
     256,  255,  255,  255,  254,  254,  253,  252,  251,  249,  248,  246,  244,  243,  241,  238,
     236,  234,  231,  228,  225,  222,  219,  216,  212,  209,  205,  201,  197,  193,  189,  185,
     181,  176,  171,  167,  162,  157,  152,  147,  142,  136,  131,  126,  120,  115,  109,  103,
      97,   92,   86,   80,   74,   68,   62,   56,   49,   43,   37,   31,   25,   18,   12,    6,
       0,   -6,  -12,  -18,  -25,  -31,  -37,  -43,  -49,  -56,  -62,  -68,  -74,  -80,  -86,  -92,
     -97, -103, -109, -115, -120, -126, -131, -136, -142, -147, -152, -157, -162, -167, -171, -176,
    -181, -185, -189, -193, -197, -201, -205, -209, -212, -216, -219, -222, -225, -228, -231, -234,
    -236, -238, -241, -243, -244, -246, -248, -249, -251, -252, -253, -254, -254, -255, -255, -255,
    -256, -255, -255, -255, -254, -254, -253, -252, -251, -249, -248, -246, -244, -243, -241, -238,
    -236, -234, -231, -228, -225, -222, -219, -216, -212, -209, -205, -201, -197, -193, -189, -185,
    -181, -176, -171, -167, -162, -157, -152, -147, -142, -136, -131, -126, -120, -115, -109, -103,
     -97,  -92,  -86,  -80,  -74,  -68,  -62,  -56,  -49,  -43,  -37,  -31,  -25,  -18,  -12,   -6,
       0,    6,   12,   18,   25,   31,   37,   43,   49,   56,   62,   68,   74,   80,   86,   92,
      97,  103,  109,  115,  120,  126,  131,  136,  142,  147,  152,  157,  162,  167,  171,  176,
     181,  185,  189,  193,  197,  201,  205,  209,  212,  216,  219,  222,  225,  228,  231,  234,
     236,  238,  241,  243,  244,  246,  248,  249,  251,  252,  253,  254,  254,  255,  255,  255
>>

\* s16 Sin(s16 index, s16 amplitude): (amplitude * gSineTable[index]) >> 8.
\* An index outside the table has no value here: the model has none for a
\* read outside the array.
Sin(index, amplitude) == S16(Asr(amplitude * gSineTable[index + 1], 8))

\* s16 Cos(s16 index, s16 amplitude): (amplitude * gSineTable[index + 64]) >> 8.
Cos(index, amplitude) == S16(Asr(amplitude * gSineTable[index + 64 + 1], 8))

-----------------------------------------------------------------------------
(* The context of a sprite callback and its accessors *)

Ctx(sp, an, idx, sum) ==
    [sprite |-> sp, sAnims |-> an, sAnimIdx |-> idx, sIsSummaryAnim |-> sum]

\* sprite->data[i]
D(c, i) == c.sprite.data[i]

\* sprite->data[i] = v
SetD(c, i, v) == [c EXCEPT !.sprite.data[i] = S16(v)]

\* sprite->x2 = v and sprite->y2 = v
SetX2(c, v) == [c EXCEPT !.sprite.x2 = S16(v)]
SetY2(c, v) == [c EXCEPT !.sprite.y2 = S16(v)]

X2(c) == c.sprite.x2
Y2(c) == c.sprite.y2

\* sprite->callback = f
SetCallback(c, f) == [c EXCEPT !.sprite.callback = f]

\* sprite->invisible = b
SetInvisible(c, b) == [c EXCEPT !.sprite.invisible = b]

\* sAnims[id].field = v, with the field's C type
SetDelay(c, id, v) == [c EXCEPT !.sAnims[id].delay = U16(v)]
SetSpeed(c, id, v) == [c EXCEPT !.sAnims[id].speed = S16(v)]
SetRuns(c, id, v) == [c EXCEPT !.sAnims[id].runs = S16(v)]
SetRotation(c, id, v) == [c EXCEPT !.sAnims[id].rotation = S16(v)]
SetData(c, id, v) == [c EXCEPT !.sAnims[id].data = S16(v)]

\* sprite->sDontFlip, that is data[1]
sDontFlip(c) == D(c, 1)

-----------------------------------------------------------------------------
(* Collaborators outside pokemon_animation.c *)

\* sprite.c, CalcCenterToCornerVec for the 64x64 sprite of a mon: the
\* vector is (-32, -32), doubled in ST_OAM_AFFINE_DOUBLE mode.
CalcCenterToCornerVec(c) ==
    [c EXCEPT !.sprite.centerToCornerVecX =
        IF c.sprite.affineMode = "ST_OAM_AFFINE_DOUBLE" THEN -64 ELSE -32]

\* palette.c, BlendPalette(palOffset, numEntries, coeff, blendColor): the
\* model keeps the last request made for the sprite.
BlendPalette(c, palOffset, coeff, color) ==
    [c EXCEPT !.sprite.blend =
        [palOffset |-> palOffset, coeff |-> U8(coeff), color |-> color]]

-----------------------------------------------------------------------------
(* The engine: affine helpers, mirroring, the pool of sAnims *)

\* static void SetAffineData(sprite, xScale, yScale, rotation): the matrix
\* of the sprite is computed by ObjAffineSet from these three values; the
\* sprite's matrix is kept as the source data handed over.
SetAffineData(c, xScale, yScale, rotation) ==
    [c EXCEPT !.sprite.matrix =
                  [xScale |-> S16(xScale), yScale |-> S16(yScale),
                   rotation |-> U16(rotation)],
              !.sprite.affineSet = TRUE]

\* static void HandleStartAffineAnim(struct Sprite *sprite)
HandleStartAffineAnim(c) ==
    LET c1 == [c EXCEPT !.sprite.affineMode = "ST_OAM_AFFINE_DOUBLE",
                        !.sprite.affineAnims = "sMonAffineAnims"]
        c2 == IF c1.sIsSummaryAnim = TRUE
              THEN [c1 EXCEPT !.sprite.affineAnimInited = TRUE]
              ELSE c1
        c3 == IF sDontFlip(c2) = 0
              THEN [c2 EXCEPT !.sprite.affineAnimNum = 1]
              ELSE [c2 EXCEPT !.sprite.affineAnimNum = 0]
        c4 == CalcCenterToCornerVec(c3)
    IN  [c4 EXCEPT !.sprite.affineAnimPaused = TRUE,
                   !.sprite.affineStarts =
                       IF @ < 3 THEN @ + 1 ELSE @]

\* HandleSetAffineData that mirrors the x scale and not the rotation.
HandleSetAffineData_ScaleOnly(c, xScale, yScale, rotation) ==
    IF sDontFlip(c) = 0
    THEN SetAffineData(c, S16(S16(xScale) * (-1)), yScale, rotation)
    ELSE SetAffineData(c, xScale, yScale, rotation)

\* static void HandleSetAffineData(sprite, xScale, yScale, rotation)
HandleSetAffineData(c, xScale, yScale, rotation) ==
    IF sDontFlip(c) = 0
    THEN SetAffineData(c, S16(S16(xScale) * (-1)), yScale,
                       U16(U16(rotation) * (-1)))
    ELSE SetAffineData(c, xScale, yScale, rotation)

\* static void TryFlipX(struct Sprite *sprite)
TryFlipX(c) ==
    IF sDontFlip(c) = 0 THEN SetX2(c, X2(c) * (-1)) ELSE c

\* InitAnimData that leaves the entry as it finds it.
InitAnimData_Stale(c, id) == c

\* static bool32 InitAnimData(u8 id): the context after the call
InitAnimData(c, id) ==
    IF id >= MAX_BATTLERS_COUNT
    THEN c
    ELSE [c EXCEPT !.sAnims[id] =
             [rotation |-> 0, delay |-> 0, runs |-> 1, speed |-> 0,
              data |-> 0]]

\* static u8 AddNewAnim(void): the context after the call; the id returned
\* is its sAnimIdx.
AddNewAnim(c) ==
    LET c1 == [c EXCEPT !.sAnimIdx =
                            U8(CMod(c.sAnimIdx + 1, MAX_BATTLERS_COUNT))]
    IN  InitAnimData(c1, c1.sAnimIdx)

\* u8 id = sprite->data[0] = AddNewAnim();
ClaimAnim(c) ==
    LET c1 == AddNewAnim(c) IN SetD(c1, 0, c1.sAnimIdx)

\* ResetSpriteAfterAnim that does not set the affine mode at its start and
\* leaves the mode of the animation.
ResetSpriteAfterAnim_KeepMode(c) ==
    LET c1 == CalcCenterToCornerVec(c)
    IN  IF c1.sIsSummaryAnim = TRUE
        THEN LET flip == (sDontFlip(c1) = 0)
             IN  [c1 EXCEPT !.sprite.hFlip = flip,
                            !.sprite.matrixFreed = TRUE,
                            !.sprite.matrixNumFlipBit = (@ \/ flip),
                            !.sprite.affineMode = "ST_OAM_AFFINE_OFF"]
        ELSE c1

\* static void ResetSpriteAfterAnim(struct Sprite *sprite), BUGFIX not
\* defined
ResetSpriteAfterAnim(c) ==
    LET c1 == CalcCenterToCornerVec(
                  [c EXCEPT !.sprite.affineMode = "ST_OAM_AFFINE_NORMAL"])
    IN  IF c1.sIsSummaryAnim = TRUE
        THEN LET flip == (sDontFlip(c1) = 0)
             IN  [c1 EXCEPT !.sprite.hFlip = flip,
                            !.sprite.matrixFreed = TRUE,
                            !.sprite.matrixNumFlipBit = (@ \/ flip),
                            !.sprite.affineMode = "ST_OAM_AFFINE_OFF"]
        ELSE c1

\* static void SetPosForRotation(sprite, index, amplitudeX, amplitudeY)
SetPosForRotation(c, index, amplitudeX, amplitudeY) ==
    LET ax == S16(amplitudeX * (-1))
        ay == S16(amplitudeY * (-1))
        xAdder == S16(Cos(index, ax) - Sin(index, ay))
        yAdder == S16(Cos(index, ay) + Sin(index, ax))
        ax2 == S16(ax * (-1))
        ay2 == S16(ay * (-1))
    IN  SetY2(SetX2(c, xAdder + ax2), yAdder + ay2)

\* WaitAnimEnd that hands over at once, whether the frame animation has
\* ended or not.
WaitAnimEnd_NoWait(c) == SetCallback(c, "SpriteCallbackDummy")

\* static void WaitAnimEnd(struct Sprite *sprite)
WaitAnimEnd(c) ==
    IF c.sprite.animEnded THEN SetCallback(c, "SpriteCallbackDummy") ELSE c

\* static void MonAnimDummySpriteCallback(struct Sprite *sprite)
MonAnimDummySpriteCallback(c) == c

\* sprite.c, void SpriteCallbackDummy(struct Sprite *sprite)
SpriteCallbackDummy(c) == c

\* sprite->data[i] += n
Inc(c, i, n) == SetD(c, i, D(c, i) + n)

\* A run of assignments sprite->data[i] = v, in order; s is a sequence of
\* pairs <<i, v>>.
SetDs(c, s) ==
    [c EXCEPT !.sprite.data =
        [i \in 0..7 |->
            LET hits == {k \in 1..Len(s) : s[k][1] = i}
            IN  IF hits = {} THEN c.sprite.data[i]
                ELSE S16(s[CHOOSE k \in hits : \A j \in hits : j <= k][2])]]

\* a[i] of a C array kept as a sequence
At(a, i) == a[i + 1]

-----------------------------------------------------------------------------
(* The catalogue of sMonAnimFunctions and the callbacks it chains to.  A   *)
(* family of catalogue functions that differ in their constants only is    *)
(* one operator that takes the function's name f.                          *)

Anim_CircularStretchTwice(c) ==
    LET c1 == IF D(c, 2) = 0 THEN HandleStartAffineAnim(c) ELSE c
        c2 == IF D(c1, 2) > 40
              THEN SetCallback(ResetSpriteAfterAnim(
                       HandleSetAffineData(c1, 256, 256, 0)), "WaitAnimEnd")
              ELSE LET var == S16(CMod(CDiv(D(c1, 2) * 512, 40), 256))
                       c3 == SetD(c1, 4, Sin(var, 32) + 256)
                       c4 == SetD(c3, 5, Cos(var, 32) + 256)
                   IN  HandleSetAffineData(c4, D(c4, 4), D(c4, 5), 0)
    IN  Inc(c2, 2, 1)

\* Anim_HorizontalVibrate, Anim_HorizontalVibrate_Fast and
\* Anim_HorizontalVibrate_Fastest
Anim_HorizontalVibrate(c, f) ==
    LET amplitude == CASE f = "Anim_HorizontalVibrate" -> 6
                       [] f = "Anim_HorizontalVibrate_Fast" -> 9
                       [] f = "Anim_HorizontalVibrate_Fastest" -> 12
        c1 == IF D(c, 2) > 40
              THEN SetX2(SetCallback(c, "WaitAnimEnd"), 0)
              ELSE LET sign == IF D(c, 2) % 2 = 0 THEN 1 ELSE -1
                   IN  SetX2(c, Sin(CMod(CDiv(D(c, 2) * 128, 40), 256),
                                    amplitude) * sign)
    IN  Inc(c1, 2, 1)

\* HorizontalSlide with data[2] >= data[0] for its bound: one frame short.
HorizontalSlide_OneShort(c) ==
    LET c1 == TryFlipX(c)
        c2 == IF D(c1, 2) >= D(c1, 0)
              THEN SetX2(SetCallback(c1, "WaitAnimEnd"), 0)
              ELSE SetX2(c1, Sin(CMod(CDiv(D(c1, 2) * 384, D(c1, 0)), 256), 6))
    IN  TryFlipX(Inc(c2, 2, 1))

HorizontalSlide(c) ==
    LET c1 == TryFlipX(c)
        c2 == IF D(c1, 2) > D(c1, 0)
              THEN SetX2(SetCallback(c1, "WaitAnimEnd"), 0)
              ELSE SetX2(c1, Sin(CMod(CDiv(D(c1, 2) * 384, D(c1, 0)), 256), 6))
    IN  TryFlipX(Inc(c2, 2, 1))

\* Anim_HorizontalSlide, Anim_HorizontalSlide_Slow, Anim_HorizontalSlide_Fast
Anim_HorizontalSlide(c, f) ==
    LET data0 == CASE f = "Anim_HorizontalSlide" -> 40
                   [] f = "Anim_HorizontalSlide_Slow" -> 80
                   [] f = "Anim_HorizontalSlide_Fast" -> 20
    IN  SetCallback(HorizontalSlide(SetD(c, 0, data0)), "HorizontalSlide")

VerticalSlide(c) ==
    LET c1 == TryFlipX(c)
        c2 == IF D(c1, 2) > D(c1, 0)
              THEN SetY2(SetCallback(c1, "WaitAnimEnd"), 0)
              ELSE SetY2(c1,
                       -(Sin(CMod(CDiv(D(c1, 2) * 384, D(c1, 0)), 256), 6)))
    IN  TryFlipX(Inc(c2, 2, 1))

\* Anim_VerticalSlide and Anim_VerticalSlide_Slow
Anim_VerticalSlide(c, f) ==
    LET data0 == CASE f = "Anim_VerticalSlide" -> 40
                   [] f = "Anim_VerticalSlide_Slow" -> 80
    IN  SetCallback(VerticalSlide(SetD(c, 0, data0)), "VerticalSlide")

VerticalJumps(c) ==
    LET counter == D(c, 2)
        c1 == IF counter > 384
              THEN SetY2(SetX2(SetCallback(c, "WaitAnimEnd"), 0), 0)
              ELSE LET divCounter == S16(CDiv(counter, 128))
                   IN  CASE divCounter \in {0, 1} ->
                              SetY2(c, -(Sin(CMod(counter, 128), D(c, 0) * 2)))
                         [] divCounter \in {2, 3} ->
                              SetY2(c, -(Sin(counter - 256, D(c, 0) * 3)))
                         [] OTHER -> c
    IN  Inc(c1, 2, 12)

\* Anim_VerticalJumps_Big and Anim_VerticalJumps_Small
Anim_VerticalJumps(c, f) ==
    LET data0 == CASE f = "Anim_VerticalJumps_Big" -> 4
                   [] f = "Anim_VerticalJumps_Small" -> 3
    IN  SetCallback(VerticalJumps(SetD(c, 0, data0)), "VerticalJumps")

Anim_VerticalJumpsHorizontalJumps(c) ==
    LET counter == D(c, 2)
        c1 == IF counter > 768
              THEN SetY2(SetX2(SetCallback(c, "WaitAnimEnd"), 0), 0)
              ELSE LET divCounter == S16(CDiv(counter, 128))
                       counter2 == IF divCounter = 2 THEN 0 ELSE counter
                       c2 == CASE divCounter \in {0, 1} -> SetX2(c, 0)
                               [] divCounter = 3 ->
                                    SetX2(c, CDiv(-(CMod(counter, 128) * 8),
                                                  128))
                               [] divCounter = 4 ->
                                    SetX2(c, CDiv(CMod(counter, 128), 8) - 8)
                               [] divCounter = 5 ->
                                    SetX2(c, CDiv(-(CMod(counter, 128) * 8),
                                                  128) + 8)
                               [] OTHER -> c
                   IN  SetY2(c2, -(Sin(CMod(counter2, 128), 8)))
    IN  Inc(c1, 2, 12)

Anim_GrowVibrate(c) ==
    LET c1 == IF D(c, 2) = 0 THEN HandleStartAffineAnim(c) ELSE c
        c2 == IF D(c1, 2) > 40
              THEN SetCallback(ResetSpriteAfterAnim(
                       HandleSetAffineData(c1, 256, 256, 0)), "WaitAnimEnd")
              ELSE LET index == S16(CMod(CDiv(D(c1, 2) * 256, 40), 256))
                       amp == IF CMod(D(c1, 2), 2) = 0 THEN 32 ELSE 8
                       c3 == SetDs(c1, << <<4, Sin(index, amp) + 256>>,
                                          <<5, Sin(index, amp) + 256>> >>)
                   IN  HandleSetAffineData(c3, D(c3, 4), D(c3, 5), 0)
    IN  Inc(c2, 2, 1)

\* static const s8 sZigzagData[][3]: x delta, y delta, time
sZigzagData ==
    << <<-1, -1, 6>>, <<2, 0, 6>>, <<-2, 2, 6>>, <<2, 0, 6>>, <<-2, -2, 6>>,
       <<2, 0, 6>>, <<-2, 2, 6>>, <<2, 0, 6>>, <<-1, -1, 6>>, <<0, 0, 0>> >>

\* Zigzag that leaves a row one frame after its time.
Zigzag_Late(c) ==
    LET c1 == TryFlipX(c)
        c2 == IF D(c1, 2) = 0 THEN SetD(c1, 3, 0) ELSE c1
        c3 == IF At(sZigzagData, D(c2, 3))[3] + 1 = D(c2, 2)
              THEN SetD(Inc(c2, 3, 1), 2, 0)
              ELSE c2
    IN  IF At(sZigzagData, D(c3, 3))[3] = 0
        THEN SetCallback(c3, "WaitAnimEnd")
        ELSE LET c4 == SetX2(c3, X2(c3) + At(sZigzagData, D(c3, 3))[1])
                 c5 == SetY2(c4, Y2(c4) + At(sZigzagData, D(c4, 3))[2])
             IN  TryFlipX(Inc(c5, 2, 1))

\* Zigzag that looks for its last row in the column of the y deltas.
Zigzag_WrongColumn(c) ==
    LET c1 == TryFlipX(c)
        c2 == IF D(c1, 2) = 0 THEN SetD(c1, 3, 0) ELSE c1
        c3 == IF At(sZigzagData, D(c2, 3))[3] = D(c2, 2)
              THEN IF At(sZigzagData, D(c2, 3))[3] = 0
                   THEN SetCallback(c2, "WaitAnimEnd")
                   ELSE SetD(Inc(c2, 3, 1), 2, 0)
              ELSE c2
    IN  IF At(sZigzagData, D(c3, 3))[2] = 0
        THEN SetCallback(c3, "WaitAnimEnd")
        ELSE LET c4 == SetX2(c3, X2(c3) + At(sZigzagData, D(c3, 3))[1])
                 c5 == SetY2(c4, Y2(c4) + At(sZigzagData, D(c4, 3))[2])
             IN  TryFlipX(Inc(c5, 2, 1))

Zigzag(c) ==
    LET c1 == TryFlipX(c)
        c2 == IF D(c1, 2) = 0 THEN SetD(c1, 3, 0) ELSE c1
        c3 == IF At(sZigzagData, D(c2, 3))[3] = D(c2, 2)
              THEN IF At(sZigzagData, D(c2, 3))[3] = 0
                   THEN SetCallback(c2, "WaitAnimEnd")
                   ELSE SetD(Inc(c2, 3, 1), 2, 0)
              ELSE c2
    IN  IF At(sZigzagData, D(c3, 3))[3] = 0
        THEN SetCallback(c3, "WaitAnimEnd")
        ELSE LET c4 == SetX2(c3, X2(c3) + At(sZigzagData, D(c3, 3))[1])
                 c5 == SetY2(c4, Y2(c4) + At(sZigzagData, D(c4, 3))[2])
             IN  TryFlipX(Inc(c5, 2, 1))

Anim_ZigzagFast(c) == SetCallback(Zigzag(c), "Zigzag")

\* Anim_ZigzagSlow that steps Zigzag in every frame.
Anim_ZigzagSlow_EveryFrame(c) == SetD(Zigzag(SetD(c, 0, 0)), 0, 1)

Anim_ZigzagSlow(c) ==
    LET c1 == IF D(c, 2) = 0 THEN SetD(c, 0, 0) ELSE c
    IN  IF D(c1, 0) <= 0 THEN SetD(Zigzag(c1), 0, 1) ELSE Inc(c1, 0, -1)

HorizontalShake(c) ==
    LET counter == D(c, 2)
        c1 == IF counter > 2304
              THEN SetX2(SetCallback(c, "WaitAnimEnd"), 0)
              ELSE SetX2(c, Sin(CMod(counter, 256), D(c, 7)))
    IN  Inc(c1, 2, D(c1, 0))

\* Anim_HorizontalShake, Anim_HorizontalShake_Slow, Anim_HorizontalShake_Fast
Anim_HorizontalShake(c, f) ==
    LET p == CASE f = "Anim_HorizontalShake" -> <<60, 3>>
               [] f = "Anim_HorizontalShake_Slow" -> <<30, 3>>
               [] f = "Anim_HorizontalShake_Fast" -> <<70, 6>>
    IN  SetCallback(HorizontalShake(SetDs(c, << <<0, p[1]>>, <<7, p[2]>> >>)),
                    "HorizontalShake")

VerticalShake(c) ==
    LET counter == D(c, 2)
        c1 == IF counter > 2304
              THEN SetY2(SetCallback(c, "WaitAnimEnd"), 0)
              ELSE SetY2(c, Sin(CMod(counter, 256), 3))
    IN  Inc(c1, 2, D(c1, 0))

\* Anim_VerticalShake and Anim_VertialShake_Slow
Anim_VerticalShake(c, f) ==
    LET data0 == CASE f = "Anim_VerticalShake" -> 60
                   [] f = "Anim_VertialShake_Slow" -> 30
    IN  SetCallback(VerticalShake(SetD(c, 0, data0)), "VerticalShake")

Anim_CircularVibrate(c) ==
    LET c1 == IF D(c, 2) > 512
              THEN SetY2(SetX2(SetCallback(c, "WaitAnimEnd"), 0), 0)
              ELSE LET sign == IF D(c, 2) % 2 = 0 THEN 1 ELSE -1
                       amplitude == Sin(CDiv(D(c, 2), 4), 8)
                       index == CMod(D(c, 2), 256)
                       c2 == SetY2(c, Sin(index, amplitude) * sign)
                   IN  SetX2(c2, Cos(index, amplitude) * sign)
    IN  Inc(c1, 2, 9)

\* Twist with sAnims[id].delay = 9 between the replays.
Twist_ShortDelay(c) ==
    LET id == D(c, 0)
    IN  IF c.sAnims[id].delay # 0
        THEN SetDelay(c, id, c.sAnims[id].delay - 1)
        ELSE LET c1 == IF D(c, 2) = 0 /\ c.sAnims[id].data = 0
                       THEN LET c0 == HandleStartAffineAnim(c)
                            IN  SetData(c0, id, c0.sAnims[id].data + 1)
                       ELSE c
                 c2 == IF D(c1, 2) > c1.sAnims[id].rotation
                       THEN LET c3 == HandleSetAffineData(c1, 256, 256, 0)
                            IN  IF c3.sAnims[id].runs > 1
                                THEN SetD(SetDelay(SetRuns(c3, id,
                                         c3.sAnims[id].runs - 1), id, 9), 2, 0)
                                ELSE SetCallback(ResetSpriteAfterAnim(c3),
                                                 "WaitAnimEnd")
                       ELSE LET c3 == SetD(c1, 6,
                                          Sin(CMod(D(c1, 2), 256), 4096))
                            IN  HandleSetAffineData(c3, 256, 256, D(c3, 6))
             IN  Inc(c2, 2, 16)

\* Twist that goes on turning while it waits.
Twist_TurnsInDelay(c) ==
    LET id == D(c, 0)
    IN  IF c.sAnims[id].delay # 0
        THEN Inc(SetDelay(c, id, c.sAnims[id].delay - 1), 2, 16)
        ELSE LET c1 == IF D(c, 2) = 0 /\ c.sAnims[id].data = 0
                       THEN LET c0 == HandleStartAffineAnim(c)
                            IN  SetData(c0, id, c0.sAnims[id].data + 1)
                       ELSE c
                 c2 == IF D(c1, 2) > c1.sAnims[id].rotation
                       THEN LET c3 == HandleSetAffineData(c1, 256, 256, 0)
                            IN  IF c3.sAnims[id].runs > 1
                                THEN SetD(SetDelay(SetRuns(c3, id,
                                         c3.sAnims[id].runs - 1), id, 10), 2, 0)
                                ELSE SetCallback(ResetSpriteAfterAnim(c3),
                                                 "WaitAnimEnd")
                       ELSE LET c3 == SetD(c1, 6,
                                          Sin(CMod(D(c1, 2), 256), 4096))
                            IN  HandleSetAffineData(c3, 256, 256, D(c3, 6))
             IN  Inc(c2, 2, 16)

Twist(c) ==
    LET id == D(c, 0)
    IN  IF c.sAnims[id].delay # 0
        THEN SetDelay(c, id, c.sAnims[id].delay - 1)
        ELSE LET c1 == IF D(c, 2) = 0 /\ c.sAnims[id].data = 0
                       THEN LET c0 == HandleStartAffineAnim(c)
                            IN  SetData(c0, id, c0.sAnims[id].data + 1)
                       ELSE c
                 c2 == IF D(c1, 2) > c1.sAnims[id].rotation
                       THEN LET c3 == HandleSetAffineData(c1, 256, 256, 0)
                            IN  IF c3.sAnims[id].runs > 1
                                THEN SetD(SetDelay(SetRuns(c3, id,
                                         c3.sAnims[id].runs - 1), id, 10), 2, 0)
                                ELSE SetCallback(ResetSpriteAfterAnim(c3),
                                                 "WaitAnimEnd")
                       ELSE LET c3 == SetD(c1, 6,
                                          Sin(CMod(D(c1, 2), 256), 4096))
                            IN  HandleSetAffineData(c3, 256, 256, D(c3, 6))
             IN  Inc(c2, 2, 16)

\* Anim_Twist and Anim_Twist_Twice
Anim_Twist(c, f) ==
    LET c1 == ClaimAnim(c)
        id == U8(D(c1, 0))
        c2 == CASE f = "Anim_Twist" ->
                     SetDelay(SetRotation(c1, id, 512), id, 0)
                [] f = "Anim_Twist_Twice" ->
                     SetRuns(SetDelay(SetRotation(c1, id, 1024), id, 0), id, 2)
    IN  SetCallback(Twist(c2), "Twist")

Spin(c) ==
    LET id == U8(D(c, 0))
        c1 == IF D(c, 2) = 0 THEN HandleStartAffineAnim(c) ELSE c
        c2 == IF D(c1, 2) > c1.sAnims[id].delay
              THEN SetCallback(ResetSpriteAfterAnim(
                       HandleSetAffineData(c1, 256, 256, 0)), "WaitAnimEnd")
              ELSE LET c3 == SetD(c1, 6,
                                 CDiv(65536, c1.sAnims[id].data) * D(c1, 2))
                   IN  HandleSetAffineData(c3, 256, 256, D(c3, 6))
    IN  Inc(c2, 2, 1)

\* Anim_Spin_Long and Anim_Spin
Anim_Spin(c, f) ==
    LET c1 == ClaimAnim(c)
        id == U8(D(c1, 0))
        data == CASE f = "Anim_Spin_Long" -> 20
                  [] f = "Anim_Spin" -> 30
    IN  SetCallback(Spin(SetData(SetDelay(c1, id, 60), id, data)), "Spin")

CircleCounterclockwise(c) ==
    LET id == U8(D(c, 0))
        c1 == TryFlipX(c)
        c2 == IF D(c1, 2) > c1.sAnims[id].rotation
              THEN SetCallback(SetY2(SetX2(c1, 0), 0), "WaitAnimEnd")
              ELSE LET index == S16(CMod(D(c1, 2) + 192, 256))
                       c3 == SetX2(c1, -(Cos(index, c1.sAnims[id].data * 2)))
                   IN  SetY2(c3, Sin(index, c3.sAnims[id].data)
                                 + c3.sAnims[id].data)
    IN  TryFlipX(Inc(c2, 2, c2.sAnims[id].speed))

\* Anim_CircleCounterclockwise, Anim_CircleCounterclockwise_Slow and
\* Anim_CircleCounterclockwise_Long
Anim_CircleCounterclockwise(c, f) ==
    LET c1 == ClaimAnim(c)
        id == U8(D(c1, 0))
        p == CASE f = "Anim_CircleCounterclockwise" -> <<512, 6, 24>>
               [] f = "Anim_CircleCounterclockwise_Slow" -> <<512, 3, 12>>
               [] f = "Anim_CircleCounterclockwise_Long" -> <<1024, 6, 24>>
        c2 == SetSpeed(SetData(SetRotation(c1, id, p[1]), id, p[2]), id, p[3])
    IN  SetCallback(CircleCounterclockwise(c2), "CircleCounterclockwise")

\* #define GlowColor(color, colorIncrement, speed)
GlowColor(c, color, colorIncrement, speed) ==
    LET c1 == IF D(c, 2) = 0
              THEN SetD(c, 7, (c.sprite.paletteNum * 16) + 256)
              ELSE c
        c2 == IF D(c1, 2) > 128
              THEN SetCallback(BlendPalette(c1, D(c1, 7), 0, color),
                               "WaitAnimEnd")
              ELSE LET c3 == SetD(c1, 6, Sin(D(c1, 2), colorIncrement))
                   IN  BlendPalette(c3, D(c3, 7), D(c3, 6), color)
    IN  Inc(c2, 2, speed)

\* Anim_GlowBlack, Anim_GlowOrange, Anim_GlowRed, Anim_GlowBlue,
\* Anim_GlowYellow and Anim_GlowPurple
Anim_Glow(c, f) ==
    CASE f = "Anim_GlowBlack" -> GlowColor(c, "RGB_BLACK", 16, 1)
      [] f = "Anim_GlowOrange" -> GlowColor(c, "RGB(31, 22, 0)", 12, 2)
      [] f = "Anim_GlowRed" -> GlowColor(c, "RGB_RED", 12, 2)
      [] f = "Anim_GlowBlue" -> GlowColor(c, "RGB_BLUE", 12, 2)
      [] f = "Anim_GlowYellow" -> GlowColor(c, "RGB_YELLOW", 12, 2)
      [] f = "Anim_GlowPurple" -> GlowColor(c, "RGB_PURPLE", 12, 2)

Anim_HorizontalStretch(c) ==
    LET c1 == IF D(c, 2) = 0 THEN HandleStartAffineAnim(c) ELSE c
        c2 == IF D(c1, 2) > 40
              THEN SetCallback(ResetSpriteAfterAnim(
                       HandleSetAffineData(c1, 256, 256, 0)), "WaitAnimEnd")
              ELSE LET index2 == S16(CDiv(D(c1, 2) * 128, 40))
                       inRange == D(c1, 2) >= 10 /\ D(c1, 2) <= 29
                       c3 == IF inRange THEN Inc(c1, 7, 51) ELSE c1
                       index1 == IF inRange THEN D(c3, 7) % 256 ELSE 0
                       c4 == IF sDontFlip(c3) = 0
                             THEN SetD(c3, 4, (Sin(index2, 40) - 256)
                                              + Sin(index1, 16))
                             ELSE SetD(c3, 4, (256 - Sin(index2, 40))
                                              - Sin(index1, 16))
                       c5 == SetD(c4, 5, Sin(index2, 16) + 256)
                   IN  SetAffineData(c5, D(c5, 4), D(c5, 5), 0)
    IN  Inc(c2, 2, 1)

Anim_VerticalStretch(c) ==
    LET c1 == IF D(c, 2) = 0 THEN HandleStartAffineAnim(c) ELSE c
        c2 == IF D(c1, 2) > 40
              THEN SetY2(SetCallback(ResetSpriteAfterAnim(
                       HandleSetAffineData(c1, 256, 256, 0)), "WaitAnimEnd"),
                       0)
              ELSE LET index2 == S16(CDiv(D(c1, 2) * 128, 40))
                       inRange == D(c1, 2) >= 10 /\ D(c1, 2) <= 29
                       c3 == IF inRange THEN Inc(c1, 7, 51) ELSE c1
                       index1 == IF inRange THEN D(c3, 7) % 256 ELSE 0
                       c4 == IF sDontFlip(c3) = 0
                             THEN SetD(c3, 4, -(Sin(index2, 16)) - 256)
                             ELSE SetD(c3, 4, Sin(index2, 16) + 256)
                       c5 == SetD(c4, 5, (256 - Sin(index2, 40))
                                         - Sin(index1, 8))
                       posY == IF D(c5, 5) # 256
                               THEN S16(CDiv(256 - D(c5, 5), 8)) ELSE 0
                   IN  SetAffineData(SetY2(c5, -(posY)), D(c5, 4), D(c5, 5), 0)
    IN  Inc(c2, 2, 1)

\* static const u8 sVerticalShakeData[][2]: amplitude, time (as u8)
sVerticalShakeData == << <<6, 30>>, <<U8(-2), 15>>, <<6, 30>>, <<U8(-1), 0>> >>

\* The values a division by zero can leave in the destination register: the
\* build's software division does not trap and its quotient is unspecified.
DivByZeroQuotients == {0, 1, 255}

\* VerticalShakeTwice; q is the quotient the build yields if var6 is zero.
VerticalShakeTwice(c, q) ==
    LET index == U8(D(c, 2))
        var7 == U8(D(c, 6))
        var5 == U8(At(sVerticalShakeData, D(c, 5))[1])
        var6 == U8(At(sVerticalShakeData, D(c, 5))[2])
        amplitude == IF var5 # U8(-2)
                     THEN IF var6 = 0 THEN U8(q)
                          ELSE U8(CDiv((var6 - var7) * var5, var6))
                     ELSE 0
    IN  IF var5 = U8(-1)
        THEN SetY2(SetCallback(c, "WaitAnimEnd"), 0)
        ELSE LET c1 == SetY2(c, Sin(index, amplitude))
             IN  IF var7 = var6
                 THEN SetD(Inc(c1, 5, 1), 6, 0)
                 ELSE Inc(Inc(c1, 2, D(c1, 0)), 6, 1)

\* Anim_VerticalShakeTwice and Anim_VerticalShakeTwice_Slow
Anim_VerticalShakeTwice(c, f, q) ==
    LET data0 == CASE f = "Anim_VerticalShakeTwice" -> 48
                   [] f = "Anim_VerticalShakeTwice_Slow" -> 24
    IN  SetCallback(VerticalShakeTwice(SetD(c, 0, data0), q),
                    "VerticalShakeTwice")

Anim_TipMoveForward(c) ==
    LET c1 == TryFlipX(c)
        counter == U8(D(c1, 2))
        c2 == IF D(c1, 2) = 0 THEN HandleStartAffineAnim(c1) ELSE c1
        c3 == IF D(c2, 2) > 35
              THEN SetX2(SetCallback(ResetSpriteAfterAnim(
                       HandleSetAffineData(c2, 256, 256, 0)), "WaitAnimEnd"),
                       0)
              ELSE LET index == S16(CDiv((counter - 10) * 128, 20))
                   IN  IF counter < 10
                       THEN HandleSetAffineData(c2, 256, 256,
                                                CDiv(counter, 2) * 512)
                       ELSE IF counter >= 10 /\ counter <= 29
                       THEN SetX2(c2, -(Sin(index, 5)))
                       ELSE HandleSetAffineData(c2, 256, 256,
                                CDiv(35 - counter, 2) * 1024)
    IN  TryFlipX(Inc(c3, 2, 1))

Anim_HorizontalPivot(c) ==
    LET c1 == IF D(c, 2) = 0 THEN HandleStartAffineAnim(c) ELSE c
        c2 == IF D(c1, 2) > 100
              THEN SetCallback(ResetSpriteAfterAnim(SetY2(
                       HandleSetAffineData(c1, 256, 256, 0), 0)),
                       "WaitAnimEnd")
              ELSE LET index == S16(CDiv(D(c1, 2) * 256, 100))
                   IN  HandleSetAffineData(SetY2(c1, Sin(index, 10)),
                                           256, 256, Sin(index, 3276))
    IN  Inc(c2, 2, 1)

VerticalSlideWobble(c) ==
    LET c1 == IF D(c, 2) = 0 THEN HandleStartAffineAnim(c) ELSE c
        c2 == IF D(c1, 2) > 100
              THEN SetCallback(ResetSpriteAfterAnim(SetY2(
                       HandleSetAffineData(c1, 256, 256, 0), 0)),
                       "WaitAnimEnd")
              ELSE LET index == S16(CDiv(D(c1, 2) * 256, 100))
                       var == CDiv(D(c1, 2) * 512, 100) % 256
                   IN  HandleSetAffineData(SetY2(c1, Sin(index, D(c1, 0))),
                                           256, 256, Sin(var, 3276))
    IN  Inc(c2, 2, 1)

\* Anim_VerticalSlideWobble and Anim_VerticalSlideWobble_Small
Anim_VerticalSlideWobble(c, f) ==
    LET data0 == CASE f = "Anim_VerticalSlideWobble" -> 10
                   [] f = "Anim_VerticalSlideWobble_Small" -> 5
    IN  SetCallback(VerticalSlideWobble(SetD(c, 0, data0)),
                    "VerticalSlideWobble")

RisingWobble(c) ==
    LET c1 == IF D(c, 2) = 0 THEN HandleStartAffineAnim(c) ELSE c
        c2 == IF D(c1, 2) > 100
              THEN SetCallback(ResetSpriteAfterAnim(SetY2(
                       HandleSetAffineData(c1, 256, 256, 0), 0)),
                       "WaitAnimEnd")
              ELSE LET index == S16(CDiv(D(c1, 2) * 256, 100))
                       var == CDiv(D(c1, 2) * 512, 100) % 256
                   IN  HandleSetAffineData(
                           SetY2(c1, -(Sin(CDiv(index, 2), D(c1, 0) * 2))),
                           256, 256, Sin(var, 3276))
    IN  Inc(c2, 2, 1)

Anim_RisingWobble(c) ==
    SetCallback(RisingWobble(SetD(c, 0, 5)), "RisingWobble")

Anim_HorizontalSlideWobble(c) ==
    LET c0 == TryFlipX(c)
        c1 == IF D(c0, 2) = 0 THEN HandleStartAffineAnim(c0) ELSE c0
        c2 == IF D(c1, 2) > 100
              THEN SetCallback(ResetSpriteAfterAnim(SetX2(
                       HandleSetAffineData(c1, 256, 256, 0), 0)),
                       "WaitAnimEnd")
              ELSE LET index == S16(CDiv(D(c1, 2) * 256, 100))
                       var == CDiv(D(c1, 2) * 512, 100) % 256
                   IN  HandleSetAffineData(SetX2(c1, Sin(index, 8)),
                                           256, 256, Sin(var, 3276))
    IN  TryFlipX(Inc(c2, 2, 1))

VerticalSquishBounce(c) ==
    LET c1 == IF D(c, 2) = 0
              THEN SetD(HandleStartAffineAnim(c), 3, 0)
              ELSE c
        c2 == TryFlipX(c1)
        c3 == IF D(c2, 2) > D(c2, 0) * 3
              THEN SetCallback(ResetSpriteAfterAnim(SetY2(
                       HandleSetAffineData(c2, 256, 256, 0), 0)),
                       "WaitAnimEnd")
              ELSE LET yScale == S16(Sin(D(c2, 4), 32) + 256)
                       c4 == IF D(c2, 2) > D(c2, 0)
                                /\ D(c2, 2) < D(c2, 0) * 2
                             THEN Inc(c2, 3, CDiv(128, D(c2, 0)))
                             ELSE c2
                       posY == IF yScale > 256
                               THEN S16(CDiv(256 - yScale, 8)) ELSE 0
                       c5 == SetY2(c4, -(Sin(D(c4, 3), 10)) - posY)
                       c6 == HandleSetAffineData(c5,
                                 256 - Sin(D(c5, 4), 32), yScale, 0)
                       c7 == Inc(c6, 2, 1)
                   IN  SetD(c7, 4,
                            (D(c7, 4) + CDiv(128, D(c7, 0))) % 256)
    IN  TryFlipX(c3)

\* Anim_VerticalSquishBounce and Anim_VerticalSquishBounce_Slow
Anim_VerticalSquishBounce(c, f) ==
    LET data0 == CASE f = "Anim_VerticalSquishBounce" -> 16
                   [] f = "Anim_VerticalSquishBounce_Slow" -> 32
    IN  SetCallback(VerticalSquishBounce(SetD(c, 0, data0)),
                    "VerticalSquishBounce")

ShrinkGrow(c) ==
    IF D(c, 2) > CDiv(128, D(c, 6)) * D(c, 7)
    THEN SetCallback(ResetSpriteAfterAnim(SetY2(
             HandleSetAffineData(c, 256, 256, 0), 0)), "WaitAnimEnd")
    ELSE LET yScale == S16(Sin(D(c, 4), 32) + 256)
             posY == IF yScale > 256 THEN S16(CDiv(256 - yScale, 8)) ELSE 0
             c1 == SetY2(c, -(posY))
             c2 == HandleSetAffineData(c1, Sin(D(c1, 4), 48) + 256, yScale, 0)
             c3 == Inc(c2, 2, 1)
         IN  SetD(c3, 4, (D(c3, 4) + D(c3, 6)) % 256)

\* Anim_ShrinkGrow, Anim_ShrinkGrow_Fast and Anim_ShrinkGrow_Slow
Anim_ShrinkGrow(c, f) ==
    LET p == CASE f = "Anim_ShrinkGrow" -> <<3, 8>>
               [] f = "Anim_ShrinkGrow_Fast" -> <<5, 8>>
               [] f = "Anim_ShrinkGrow_Slow" -> <<3, 4>>
        c1 == IF D(c, 2) = 0
              THEN SetDs(HandleStartAffineAnim(c),
                         << <<7, p[1]>>, <<6, p[2]>> >>)
              ELSE c
    IN  ShrinkGrow(c1)

\* static const s8 sBounceRotateToSidesData[][8][3]
sBounceRotateToSidesData ==
    << << <<0, 8, 8>>, <<8, -8, 12>>, <<-8, 8, 12>>, <<8, -8, 12>>,
          <<-8, 8, 12>>, <<8, -8, 12>>, <<-8, 0, 12>>, <<0, 0, 0>> >>,
       << <<0, 8, 16>>, <<8, -8, 24>>, <<-8, 8, 24>>, <<8, -8, 24>>,
          <<-8, 8, 24>>, <<8, -8, 24>>, <<-8, 0, 24>>, <<0, 0, 0>> >> >>

BounceRotateToSides(c) ==
    LET c1 == TryFlipX(c)
        structId == U8(D(c1, 0))
        var == c1.sAnims[structId].rotation
        arrId == c1.sAnims[structId].data
        r9 == At(At(sBounceRotateToSidesData, arrId), D(c1, 4))[1]
        r10 == S16(At(At(sBounceRotateToSidesData, arrId), D(c1, 4))[2] - r9)
        r7 == D(c1, 3)
        c2 == IF D(c1, 2) = 0
              THEN Inc(HandleStartAffineAnim(c1), 2, 1)
              ELSE c1
        time == At(At(sBounceRotateToSidesData, arrId), D(c2, 4))[3]
        c3 == IF time = 0
              THEN SetCallback(ResetSpriteAfterAnim(SetY2(SetX2(
                       HandleSetAffineData(c2, 256, 256, 0), 0), 0)),
                       "WaitAnimEnd")
              ELSE LET c4 == SetY2(c2, -(Sin(CDiv(r7 * 128, time), 10)))
                       c5 == SetX2(c4, CDiv(r10 * r7, time) + r9)
                       rotation == U16(CDiv(-(var * X2(c5)), 8))
                       c6 == HandleSetAffineData(c5, 256, 256, rotation)
                   IN  IF r7 = time
                       THEN SetD(Inc(c6, 4, 1), 3, 0)
                       ELSE Inc(c6, 3, 1)
    IN  TryFlipX(c3)

\* Anim_BounceRotateToSides, Anim_BounceRotateToSides_Small,
\* Anim_BounceRotateToSides_Slow and Anim_BounceRotateToSides_SmallSlow
Anim_BounceRotateToSides(c, f) ==
    LET c0 == IF f \in {"Anim_BounceRotateToSides_Slow",
                        "Anim_BounceRotateToSides_SmallSlow"}
              THEN SetD(c, 6, 1) ELSE c
        c1 == ClaimAnim(c0)
        id == U8(D(c1, 0))
        rotation == IF f \in {"Anim_BounceRotateToSides",
                              "Anim_BounceRotateToSides_Slow"}
                    THEN 4096 ELSE 2048
        c2 == SetData(SetRotation(c1, id, rotation), id, D(c1, 6))
    IN  SetCallback(BounceRotateToSides(c2), "BounceRotateToSides")

Anim_BackAndLunge(c) ==
    SetCallback(HandleStartAffineAnim(c), "BackAndLunge_0")

BackAndLunge_0(c) ==
    LET c1 == TryFlipX(c)
        c2 == SetX2(c1, X2(c1) + 1)
        c3 == IF X2(c2) > 7
              THEN SetCallback(SetD(SetX2(c2, 8), 7, 2), "BackAndLunge_1")
              ELSE c2
    IN  TryFlipX(c3)

\* The do ... while (subResult > -8) loop of BackAndLunge_1: the value of
\* sprite->data[6] when the loop ends.
RECURSIVE BackAndLunge_1_Loop(_, _, _)
BackAndLunge_1_Loop(subResult, var, data6) ==
    LET subResult2 == S16(subResult - var)
    IN  IF subResult2 > -8
        THEN BackAndLunge_1_Loop(subResult2, U8(var + 1), S16(data6 + 1))
        ELSE S16(data6 + 1)

BackAndLunge_1(c) ==
    LET c1 == TryFlipX(c)
        c2 == SetX2(c1, X2(c1) - D(c1, 7))
        c3 == Inc(c2, 7, 1)
        c4 == IF X2(c3) <= 0
              THEN SetCallback(SetDs(c3,
                       << <<6, BackAndLunge_1_Loop(X2(c3), U8(D(c3, 7)), 0)>>,
                          <<5, 1>> >>), "BackAndLunge_2")
              ELSE c3
    IN  TryFlipX(c4)

BackAndLunge_2(c) ==
    LET c1 == TryFlipX(c)
        c2 == SetX2(c1, X2(c1) - D(c1, 7))
        c3 == Inc(c2, 7, 1)
        rotation == U8(CDiv(D(c3, 5) * 6, D(c3, 6)))
        c4 == Inc(c3, 5, 1)
        c5 == IF D(c4, 5) > D(c4, 6) THEN SetD(c4, 5, D(c4, 6)) ELSE c4
        c6 == HandleSetAffineData(c5, 256, 256, rotation * 256)
        c7 == IF X2(c6) < -8
              THEN SetCallback(SetDs(SetX2(c6, -8),
                       << <<4, 2>>, <<3, 0>>, <<2, rotation>> >>),
                       "BackAndLunge_3")
              ELSE c6
    IN  TryFlipX(c7)

BackAndLunge_3(c) ==
    LET c1 == TryFlipX(c)
        c2 == IF D(c1, 3) > 11
              THEN LET c3 == Inc(c1, 2, -2)
                       c4 == IF D(c3, 2) < 0 THEN SetD(c3, 2, 0) ELSE c3
                       c5 == HandleSetAffineData(c4, 256, 256, D(c4, 2) * 256)
                   IN  IF D(c5, 2) = 0
                       THEN SetCallback(c5, "BackAndLunge_4") ELSE c5
              ELSE LET c3 == SetX2(c1, X2(c1) + D(c1, 4))
                   IN  Inc(SetD(c3, 4, D(c3, 4) * (-1)), 3, 1)
    IN  TryFlipX(c2)

BackAndLunge_4(c) ==
    LET c1 == TryFlipX(c)
        c2 == SetX2(c1, X2(c1) + 2)
        c3 == IF X2(c2) > 0
              THEN SetCallback(ResetSpriteAfterAnim(SetX2(c2, 0)),
                               "WaitAnimEnd")
              ELSE c2
    IN  TryFlipX(c3)

Anim_BackFlip(c) ==
    SetCallback(SetD(HandleStartAffineAnim(c), 3, 0), "BackFlip_0")

BackFlip_0(c) ==
    LET c1 == TryFlipX(c)
        c2 == SetY2(SetX2(c1, X2(c1) + 1), Y2(c1) - 1)
        c3 == IF CMod(X2(c2), 2) = 0 /\ D(c2, 3) <= 0
              THEN SetD(c2, 3, 10) ELSE c2
        c4 == IF X2(c3) > 7
              THEN SetCallback(SetD(SetY2(SetX2(c3, 8), -8), 4, 0),
                               "BackFlip_1")
              ELSE c3
    IN  TryFlipX(c4)

BackFlip_1(c) ==
    LET c1 == TryFlipX(c)
        c2 == SetX2(c1, Cos(D(c1, 4), 16) - 8)
        c3 == SetY2(c2, Sin(D(c2, 4), 16) - 8)
        c4 == IF D(c3, 4) > 63
              THEN SetCallback(SetDs(c3, << <<2, 160>>, <<3, 10>> >>),
                               "BackFlip_2")
              ELSE c3
        c5 == Inc(c4, 4, 8)
        c6 == IF D(c5, 4) > 64 THEN SetD(c5, 4, 64) ELSE c5
    IN  TryFlipX(c6)

BackFlip_2(c) ==
    LET c1 == TryFlipX(c)
        c2 == IF D(c1, 3) > 0
              THEN Inc(c1, 3, -1)
              ELSE LET c3 == SetX2(c1, Cos(D(c1, 2), 5) - 4)
                       c4 == SetY2(c3, -(Sin(D(c3, 2), 5)) + 4)
                       c5 == Inc(c4, 2, -4)
                       rotation == D(c5, 2) - 32
                       c6 == HandleSetAffineData(c5, 256, 256,
                                                 U16(rotation * 512))
                   IN  IF D(c6, 2) <= 32
                       THEN SetCallback(ResetSpriteAfterAnim(
                                SetY2(SetX2(c6, 0), 0)), "WaitAnimEnd")
                       ELSE c6
    IN  TryFlipX(c2)

Anim_Flicker(c) ==
    IF D(c, 3) > 0
    THEN Inc(c, 3, -1)
    ELSE LET c1 == SetD(c, 4, IF D(c, 4) = 0 THEN 1 ELSE 0)
             c2 == SetInvisible(c1, D(c1, 4) # 0)
             c3 == Inc(c2, 2, 1)
             c4 == IF D(c3, 2) > 19
                   THEN SetCallback(SetInvisible(c3, FALSE), "WaitAnimEnd")
                   ELSE c3
         IN  SetD(c4, 3, 2)

Anim_BackFlipBig(c) ==
    SetCallback(HandleStartAffineAnim(c), "BackFlipBig_0")

BackFlipBig_0(c) ==
    LET c1 == TryFlipX(c)
        c2 == SetY2(SetX2(c1, X2(c1) - 1), Y2(c1) + 1)
        c3 == IF X2(c2) <= -16
              THEN SetD(SetCallback(SetY2(SetX2(c2, -16), 16),
                                    "BackFlipBig_1"), 2, 160)
              ELSE c2
    IN  TryFlipX(c3)

BackFlipBig_1(c) ==
    LET c1 == TryFlipX(c)
        c2 == Inc(c1, 2, -4)
        c3 == SetX2(c2, Cos(D(c2, 2), 22))
        c4 == SetY2(c3, -(Sin(D(c3, 2), 22)))
        rotation == D(c4, 2) - 32
        c5 == HandleSetAffineData(c4, 256, 256, U16(rotation * 512))
        c6 == IF D(c5, 2) <= 32
              THEN SetCallback(c5, "BackFlipBig_2") ELSE c5
    IN  TryFlipX(c6)

BackFlipBig_2(c) ==
    LET c1 == TryFlipX(c)
        c2 == SetY2(SetX2(c1, X2(c1) - 1), Y2(c1) + 1)
        c3 == IF X2(c2) <= 0
              THEN SetCallback(ResetSpriteAfterAnim(c2), "WaitAnimEnd")
              ELSE c2
    IN  TryFlipX(c3)

Anim_FrontFlip(c) ==
    SetCallback(HandleStartAffineAnim(c), "FrontFlip_0")

FrontFlip_0(c) ==
    LET c1 == TryFlipX(c)
        c2 == SetY2(SetX2(c1, X2(c1) + 1), Y2(c1) - 1)
        c3 == IF X2(c2) > 15
              THEN SetCallback(SetD(c2, 2, 0), "FrontFlip_1")
              ELSE c2
    IN  TryFlipX(c3)

FrontFlip_1(c) ==
    LET c1 == TryFlipX(c)
        c2 == Inc(c1, 2, 16)
        c3 == IF X2(c2) <= -16
              THEN SetCallback(SetD(SetY2(SetX2(c2, -16), 16), 2, 0),
                               "FrontFlip_2")
              ELSE SetY2(SetX2(c2, X2(c2) - 2), Y2(c2) + 2)
        c4 == HandleSetAffineData(c3, 256, 256, D(c3, 2) * 256)
    IN  TryFlipX(c4)

FrontFlip_2(c) ==
    LET c1 == TryFlipX(c)
        c2 == SetY2(SetX2(c1, X2(c1) + 1), Y2(c1) - 1)
        c3 == IF X2(c2) >= 0
              THEN SetCallback(ResetSpriteAfterAnim(SetY2(SetX2(c2, 0), 0)),
                               "WaitAnimEnd")
              ELSE c2
    IN  TryFlipX(c3)

TumblingFrontFlip(c) ==
    LET id == D(c, 0)
        Begin(c1) ==
            IF D(c1, 2) = 0
            THEN LET SetUp(c0) ==
                         SetDs(c0, << <<7, c0.sAnims[id].speed>>,
                               <<3, -1>>, <<4, -1>>, <<5, 0>>, <<6, 0>> >>)
                 IN  SetUp(HandleStartAffineAnim(Inc(c1, 2, 1)))
            ELSE c1
        MoveX(c2) == SetX2(c2, X2(c2) + (D(c2, 7) * 2 * D(c2, 3)))
        MoveY(c3) == SetY2(c3, Y2(c3) + (D(c3, 7) * D(c3, 4)))
        Turn(c5) ==
            IF X2(c5) <= -16 \/ X2(c5) >= 16
            THEN Inc(SetD(SetX2(c5, D(c5, 3) * 16), 3,
                          D(c5, 3) * (-1)), 5, 1)
            ELSE IF Y2(c5) <= -16 \/ Y2(c5) >= 16
            THEN Inc(SetD(SetY2(c5, D(c5, 4) * 16), 4,
                          D(c5, 4) * (-1)), 5, 1)
            ELSE c5
        Again(c8) ==
            IF c8.sAnims[id].runs > 1
            THEN SetDelay(SetDs(SetRuns(c8, id, c8.sAnims[id].runs - 1),
                                << <<5, 0>>, <<6, 0>> >>), id, 10)
            ELSE SetCallback(ResetSpriteAfterAnim(c8), "WaitAnimEnd")
        Finish(c6) ==
            IF D(c6, 5) > 5 /\ X2(c6) <= 0
            THEN Again(SetY2(SetX2(c6, 0), 0))
            ELSE c6
        Rotate(c7) == HandleSetAffineData(c7, 256, 256, U16(D(c7, 6) * 256))
    IN  IF c.sAnims[id].delay # 0
        THEN SetDelay(c, id, c.sAnims[id].delay - 1)
        ELSE TryFlipX(Rotate(Finish(Turn(Inc(MoveY(MoveX(Begin(
                 TryFlipX(c)))), 6, 8)))))

\* Anim_TumblingFrontFlip and Anim_TumblingFrontFlip_Twice
Anim_TumblingFrontFlip(c, f) ==
    LET c1 == ClaimAnim(c)
        id == U8(D(c1, 0))
        c2 == CASE f = "Anim_TumblingFrontFlip" -> SetSpeed(c1, id, 2)
                [] f = "Anim_TumblingFrontFlip_Twice" ->
                     SetRuns(SetSpeed(c1, id, 1), id, 2)
    IN  SetCallback(TumblingFrontFlip(c2), "TumblingFrontFlip")

Anim_Figure8(c) ==
    SetCallback(SetDs(HandleStartAffineAnim(c), << <<6, 0>>, <<7, 0>> >>),
                "Figure8")

Figure8(c) ==
    LET c1 == TryFlipX(c)
        c2 == Inc(c1, 6, 4)
        c3 == SetX2(c2, -(Sin(D(c2, 6), 16)))
        c4 == SetY2(c3, -(Sin((D(c3, 6) * 2) % 256, 8)))
        c5 == IF D(c4, 6) > 192 /\ D(c4, 7) = 1
              THEN Inc(HandleSetAffineData(c4, 256, 256, 0), 7, 1)
              ELSE IF D(c4, 6) > 64 /\ D(c4, 7) = 0
              THEN Inc(HandleSetAffineData(c4, -256, 256, 0), 7, 1)
              ELSE c4
        c6 == IF D(c5, 6) > 255
              THEN SetCallback(ResetSpriteAfterAnim(HandleSetAffineData(
                       SetY2(SetX2(c5, 0), 0), 256, 256, 0)), "WaitAnimEnd")
              ELSE c5
    IN  TryFlipX(c6)

\* static const u8 sYellowFlashData[][2]: isYellow, time (as u8)
sYellowFlashData ==
    << <<0, 5>>, <<1, 1>>, <<0, 15>>, <<1, 4>>, <<0, 2>>, <<1, 2>>, <<0, 2>>,
       <<1, 2>>, <<0, 2>>, <<1, 2>>, <<0, 2>>, <<1, 2>>, <<0, 2>>,
       <<0, U8(-1)>> >>

\* Anim_FlashYellow that blends yellow in the rows that are not yellow.
Anim_FlashYellow_Inverted(c) ==
    LET c0 == Inc(c, 2, 1)
        c1 == IF D(c0, 2) = 1
              THEN SetDs(c0, << <<7, (c0.sprite.paletteNum * 16) + 256>>,
                                <<6, 0>>, <<5, 0>>, <<4, 0>> >>)
              ELSE c0
    IN  IF At(sYellowFlashData, D(c1, 6))[2] = U8(-1)
        THEN SetCallback(c1, "WaitAnimEnd")
        ELSE LET c2 == IF D(c1, 4) = 1
                       THEN SetD(IF At(sYellowFlashData, D(c1, 6))[1] = 0
                                 THEN BlendPalette(c1, D(c1, 7), 16,
                                                   "RGB_YELLOW")
                                 ELSE BlendPalette(c1, D(c1, 7), 0,
                                                   "RGB_YELLOW"), 4, 0)
                       ELSE c1
             IN  IF At(sYellowFlashData, D(c2, 6))[2] = D(c2, 5)
                 THEN Inc(SetDs(c2, << <<4, 1>>, <<5, 0>> >>), 6, 1)
                 ELSE Inc(c2, 5, 1)

Anim_FlashYellow(c) ==
    LET c0 == Inc(c, 2, 1)
        c1 == IF D(c0, 2) = 1
              THEN SetDs(c0, << <<7, (c0.sprite.paletteNum * 16) + 256>>,
                                <<6, 0>>, <<5, 0>>, <<4, 0>> >>)
              ELSE c0
    IN  IF At(sYellowFlashData, D(c1, 6))[2] = U8(-1)
        THEN SetCallback(c1, "WaitAnimEnd")
        ELSE LET c2 == IF D(c1, 4) = 1
                       THEN SetD(IF At(sYellowFlashData, D(c1, 6))[1] # 0
                                 THEN BlendPalette(c1, D(c1, 7), 16,
                                                   "RGB_YELLOW")
                                 ELSE BlendPalette(c1, D(c1, 7), 0,
                                                   "RGB_YELLOW"), 4, 0)
                       ELSE c1
             IN  IF At(sYellowFlashData, D(c2, 6))[2] = D(c2, 5)
                 THEN Inc(SetDs(c2, << <<4, 1>>, <<5, 0>> >>), 6, 1)
                 ELSE Inc(c2, 5, 1)

\* SwingConcave that repeats while runs is above 0, once too often.
SwingConcave_ToZero(c) ==
    LET id == D(c, 0)
        c1 == IF D(c, 2) = 0 THEN HandleStartAffineAnim(c) ELSE c
        c2 == TryFlipX(c1)
        c3 == IF D(c2, 2) > c2.sAnims[id].data
              THEN LET c4 == SetX2(HandleSetAffineData(c2, 256, 256, 0), 0)
                   IN  IF c4.sAnims[id].runs > 0
                       THEN SetD(SetRuns(c4, id, c4.sAnims[id].runs - 1), 2, 0)
                       ELSE SetCallback(ResetSpriteAfterAnim(c4),
                                        "WaitAnimEnd")
              ELSE LET index == S16(CDiv(D(c2, 2) * 256, c2.sAnims[id].data))
                   IN  HandleSetAffineData(SetX2(c2, -(Sin(index, 10))),
                                           256, 256, U16(Sin(index, 3276)))
    IN  TryFlipX(Inc(c3, 2, 1))

SwingConcave(c) ==
    LET id == D(c, 0)
        c1 == IF D(c, 2) = 0 THEN HandleStartAffineAnim(c) ELSE c
        c2 == TryFlipX(c1)
        c3 == IF D(c2, 2) > c2.sAnims[id].data
              THEN LET c4 == SetX2(HandleSetAffineData(c2, 256, 256, 0), 0)
                   IN  IF c4.sAnims[id].runs > 1
                       THEN SetD(SetRuns(c4, id, c4.sAnims[id].runs - 1), 2, 0)
                       ELSE SetCallback(ResetSpriteAfterAnim(c4),
                                        "WaitAnimEnd")
              ELSE LET index == S16(CDiv(D(c2, 2) * 256, c2.sAnims[id].data))
                   IN  HandleSetAffineData(SetX2(c2, -(Sin(index, 10))),
                                           256, 256, U16(Sin(index, 3276)))
    IN  TryFlipX(Inc(c3, 2, 1))

\* Anim_SwingConcave_FastShort, Anim_SwingConcave and Anim_SwingConcave_Fast
Anim_SwingConcave(c, f) ==
    LET c1 == ClaimAnim(c)
        id == U8(D(c1, 0))
        c2 == CASE f = "Anim_SwingConcave_FastShort" -> SetData(c1, id, 50)
                [] f = "Anim_SwingConcave" -> SetData(c1, id, 100)
                [] f = "Anim_SwingConcave_Fast" ->
                     SetRuns(SetData(c1, id, 50), id, 2)
    IN  SetCallback(SwingConcave(c2), "SwingConcave")

SwingConvex(c) ==
    LET id == D(c, 0)
        c1 == IF D(c, 2) = 0 THEN HandleStartAffineAnim(c) ELSE c
        c2 == TryFlipX(c1)
        c3 == IF D(c2, 2) > c2.sAnims[id].data
              THEN LET c4 == SetX2(HandleSetAffineData(c2, 256, 256, 0), 0)
                   IN  IF c4.sAnims[id].runs > 1
                       THEN SetD(SetRuns(c4, id, c4.sAnims[id].runs - 1), 2, 0)
                       ELSE SetCallback(ResetSpriteAfterAnim(c4),
                                        "WaitAnimEnd")
              ELSE LET index == S16(CDiv(D(c2, 2) * 256, c2.sAnims[id].data))
                   IN  HandleSetAffineData(SetX2(c2, -(Sin(index, 10))),
                                           256, 256, U16(-(Sin(index, 3276))))
    IN  TryFlipX(Inc(c3, 2, 1))

\* Anim_SwingConvex_FastShort, Anim_SwingConvex and Anim_SwingConvex_Fast
Anim_SwingConvex(c, f) ==
    LET c1 == ClaimAnim(c)
        id == U8(D(c1, 0))
        c2 == CASE f = "Anim_SwingConvex_FastShort" -> SetData(c1, id, 50)
                [] f = "Anim_SwingConvex" -> SetData(c1, id, 100)
                [] f = "Anim_SwingConvex_Fast" ->
                     SetRuns(SetData(c1, id, 50), id, 2)
    IN  SetCallback(SwingConvex(c2), "SwingConvex")

Anim_RotateUpSlamDown(c) ==
    LET c1 == HandleStartAffineAnim(c)
        c2 == SetD(c1, 6, -(CDiv(14 * c1.sprite.centerToCornerVecX, 10)))
    IN  SetCallback(SetD(c2, 7, 128), "RotateUpSlamDown_0")

RotateUpSlamDown_0(c) ==
    LET c1 == Inc(TryFlipX(c), 7, -1)
        c2 == SetX2(c1, D(c1, 6) + Cos(D(c1, 7), D(c1, 6)))
        c3 == SetY2(c2, -(Sin(D(c2, 7), D(c2, 6))))
        c4 == HandleSetAffineData(c3, 256, 256, U16((D(c3, 7) - 128) * 256))
        c5 == IF D(c4, 7) <= 120
              THEN SetCallback(SetDs(c4, << <<7, 120>>, <<3, 0>> >>),
                               "RotateUpSlamDown_1")
              ELSE c4
    IN  TryFlipX(c5)

RotateUpSlamDown_1(c) ==
    LET c1 == IF D(c, 3) = 20
              THEN SetD(SetCallback(c, "RotateUpSlamDown_2"), 3, 0)
              ELSE c
    IN  Inc(c1, 3, 1)

\* RotateUpSlamDown_2 that ends the animation where the slam ends.
RotateUpSlamDown_2_Ends(c) ==
    LET c1 == Inc(TryFlipX(c), 7, 2)
        c2 == SetX2(c1, D(c1, 6) + Cos(D(c1, 7), D(c1, 6)))
        c3 == SetY2(c2, -(Sin(D(c2, 7), D(c2, 6))))
        c4 == HandleSetAffineData(c3, 256, 256, U16((D(c3, 7) - 128) * 256))
        c5 == IF D(c4, 7) >= 128
              THEN SetCallback(ResetSpriteAfterAnim(SetD(
                       HandleSetAffineData(SetY2(SetX2(c4, 0), 0),
                                           256, 256, 0), 2, 0)),
                       "WaitAnimEnd")
              ELSE c4
    IN  TryFlipX(c5)

RotateUpSlamDown_2(c) ==
    LET c1 == Inc(TryFlipX(c), 7, 2)
        c2 == SetX2(c1, D(c1, 6) + Cos(D(c1, 7), D(c1, 6)))
        c3 == SetY2(c2, -(Sin(D(c2, 7), D(c2, 6))))
        c4 == HandleSetAffineData(c3, 256, 256, U16((D(c3, 7) - 128) * 256))
        c5 == IF D(c4, 7) >= 128
              THEN SetCallback(ResetSpriteAfterAnim(SetD(
                       HandleSetAffineData(SetY2(SetX2(c4, 0), 0),
                                           256, 256, 0), 2, 0)),
                       "Anim_VerticalShake")
              ELSE c4
    IN  TryFlipX(c5)

DeepVerticalSquishBounce(c) ==
    LET id == D(c, 0)
    IN  IF c.sAnims[id].delay # 0
        THEN SetDelay(c, id, c.sAnims[id].delay - 1)
        ELSE
          LET c1 == IF D(c, 2) = 0
                    THEN SetDs(HandleStartAffineAnim(c),
                               << <<4, 0>>, <<5, 0>>, <<2, 1>> >>)
                    ELSE c
              c2 == IF D(c1, 5) = 0
                    THEN LET c3 == SetD(c1, 7, Sin(D(c1, 4), 256))
                             c4 == SetY2(c3, Sin(D(c3, 4), 16))
                             c5 == SetD(c4, 6, Sin(D(c4, 4), 32))
                             c6 == HandleSetAffineData(c5, 256 - D(c5, 6),
                                                       256 + D(c5, 7), 0)
                         IN  IF D(c6, 4) = 128
                             THEN SetDs(c6, << <<4, 0>>, <<5, 1>> >>)
                             ELSE c6
                    ELSE IF D(c1, 5) = 1
                    THEN LET c3 == SetD(c1, 7, Sin(D(c1, 4), 32))
                             c4 == SetY2(c3, -(Sin(D(c3, 4), 8)))
                             c5 == SetD(c4, 6, Sin(D(c4, 4), 128))
                             c6 == HandleSetAffineData(c5, 256 + D(c5, 6),
                                                       256 - D(c5, 7), 0)
                         IN  IF D(c6, 4) = 128
                             THEN IF c6.sAnims[id].runs > 1
                                  THEN SetDs(SetDelay(SetRuns(c6, id,
                                           c6.sAnims[id].runs - 1), id, 10),
                                           << <<4, 0>>, <<5, 0>> >>)
                                  ELSE SetCallback(ResetSpriteAfterAnim(
                                           HandleSetAffineData(c6, 256, 256,
                                                               0)),
                                           "WaitAnimEnd")
                             ELSE c6
                    ELSE c1
          IN  Inc(c2, 4, c2.sAnims[id].rotation)

\* Anim_DeepVerticalSquishBounce and Anim_DeepVerticalSquishBounce_Twice
Anim_DeepVerticalSquishBounce(c, f) ==
    LET c1 == ClaimAnim(c)
        id == U8(D(c1, 0))
        c2 == CASE f = "Anim_DeepVerticalSquishBounce" ->
                     SetRotation(c1, id, 4)
                [] f = "Anim_DeepVerticalSquishBounce_Twice" ->
                     SetRuns(SetRotation(c1, id, 4), id, 2)
    IN  SetCallback(DeepVerticalSquishBounce(c2), "DeepVerticalSquishBounce")

Anim_HorizontalJumps(c) ==
    LET counter == D(c, 2)
        c1 == TryFlipX(c)
        c2 == IF counter > 512
              THEN SetY2(SetX2(SetCallback(c1, "WaitAnimEnd"), 0), 0)
              ELSE LET sw == CDiv(D(c1, 2), 128)
                       c3 == CASE sw = 0 ->
                                    SetX2(c1, CDiv(-(CMod(counter, 128) * 8),
                                                   128))
                               [] sw = 1 ->
                                    SetX2(c1, CDiv(CMod(counter, 128), 16) - 8)
                               [] sw = 2 ->
                                    SetX2(c1, CDiv(CMod(counter, 128), 16))
                               [] sw = 3 ->
                                    SetX2(c1, CDiv(-(CMod(counter, 128) * 8),
                                                   128) + 8)
                               [] OTHER -> c1
                   IN  SetY2(c3, -(Sin(CMod(counter, 128), 8)))
    IN  TryFlipX(Inc(c2, 2, 12))

HorizontalJumpsVerticalStretch_0(c) ==
    LET id == D(c, 0)
    IN  IF c.sAnims[id].delay # 0
        THEN SetDelay(c, id, c.sAnims[id].delay - 1)
        ELSE
          LET c1 == TryFlipX(c)
              counter == D(c1, 2)
              c2 == IF D(c1, 2) > 128
                    THEN SetCallback(SetD(c1, 2, 0),
                                     "HorizontalJumpsVerticalStretch_1")
                    ELSE LET var == 8 * c1.sAnims[id].data
                             c3 == SetX2(c1, CDiv(var * CMod(counter, 128),
                                                  128))
                             c4 == SetY2(c3, -(Sin(CMod(counter, 128), 8)))
                         IN  Inc(c4, 2, 12)
          IN  TryFlipX(c2)

HorizontalJumpsVerticalStretch_1(c) ==
    LET id == D(c, 0)
        c1 == TryFlipX(c)
        c2 == IF D(c1, 2) > 48
              THEN SetCallback(SetD(SetY2(
                       HandleSetAffineData(c1, 256, 256, 0), 0), 2, 0),
                       "HorizontalJumpsVerticalStretch_2")
              ELSE LET yScale == S16(Sin(D(c1, 4), 64) + 256)
                       c3 == IF D(c1, 2) >= 16 /\ D(c1, 2) <= 31
                             THEN LET c0 == Inc(c1, 3, 8)
                                  IN  SetX2(c0, X2(c0) - c0.sAnims[id].data)
                             ELSE c1
                       yDelta == IF yScale > 256
                                 THEN S16(CDiv(256 - yScale, 8)) ELSE 0
                       c4 == SetY2(c3, -(Sin(D(c3, 3), 20)) - yDelta)
                       c5 == HandleSetAffineData(c4,
                                 256 - Sin(D(c4, 4), 32), yScale, 0)
                       c6 == Inc(Inc(c5, 2, 1), 4, 8)
                   IN  SetD(c6, 4, D(c6, 4) % 256)
    IN  TryFlipX(c2)

HorizontalJumpsVerticalStretch_2(c) ==
    LET id == D(c, 0)
        c1 == TryFlipX(c)
        counter == D(c1, 2)
        c2 == IF counter > 128
              THEN LET c3 == IF c1.sAnims[id].runs > 1
                             THEN SetCallback(SetDs(SetDelay(SetRuns(c1, id,
                                      c1.sAnims[id].runs - 1), id, 10),
                                      << <<3, 0>>, <<2, 0>>, <<4, 0>> >>),
                                      "HorizontalJumpsVerticalStretch_0")
                             ELSE SetCallback(ResetSpriteAfterAnim(c1),
                                              "WaitAnimEnd")
                   IN  SetY2(SetX2(c3, 0), 0)
              ELSE LET var == c1.sAnims[id].data
                       c3 == SetX2(c1, CDiv(var * (CMod(counter, 128) * 8),
                                            128) + 8 * (-var))
                   IN  SetY2(c3, -(Sin(CMod(counter, 128), 8)))
    IN  TryFlipX(Inc(c2, 2, 12))

\* Anim_HorizontalJumpsVerticalStretch and
\* Anim_HorizontalJumpsVerticalStretch_Twice
Anim_HorizontalJumpsVerticalStretch(c, f) ==
    LET c1 == ClaimAnim(c)
        id == U8(D(c1, 0))
        c2 == CASE f = "Anim_HorizontalJumpsVerticalStretch" ->
                     SetData(c1, id, -1)
                [] f = "Anim_HorizontalJumpsVerticalStretch_Twice" ->
                     SetRuns(SetData(c1, id, 1), id, 2)
        c3 == SetD(HandleStartAffineAnim(c2), 3, 0)
    IN  SetCallback(HorizontalJumpsVerticalStretch_0(c3),
                    "HorizontalJumpsVerticalStretch_0")

RotateToSides(c) ==
    LET id == D(c, 0)
        c1 == IF D(c, 2) = 0
              THEN Inc(HandleStartAffineAnim(c), 2, 1)
              ELSE c
        c2 == TryFlipX(c1)
    IN  IF D(c2, 7) > 254
        THEN LET c3 == HandleSetAffineData(SetY2(SetX2(c2, 0), 0),
                                           256, 256, 0)
                 c4 == IF c3.sAnims[id].runs > 1
                       THEN SetDs(SetRuns(c3, id, c3.sAnims[id].runs - 1),
                                  << <<2, 0>>, <<7, 0>> >>)
                       ELSE SetCallback(ResetSpriteAfterAnim(c3),
                                        "WaitAnimEnd")
             IN  TryFlipX(c4)
        ELSE LET c3 == SetX2(c2, -(Sin(D(c2, 7), 16)))
                 rotation == U16(Sin(D(c3, 7), 32))
                 c4 == HandleSetAffineData(c3, 256, 256, U16(rotation * 256))
                 c5 == Inc(c4, 7, c4.sAnims[id].rotation)
             IN  TryFlipX(c5)

\* Anim_RotateToSides_Fast, Anim_RotateToSides and Anim_RotateToSides_Twice
Anim_RotateToSides(c, f) ==
    LET c1 == ClaimAnim(c)
        id == U8(D(c1, 0))
        c2 == CASE f = "Anim_RotateToSides_Fast" -> SetRotation(c1, id, 4)
                [] f = "Anim_RotateToSides" -> SetRotation(c1, id, 2)
                [] f = "Anim_RotateToSides_Twice" ->
                     SetRuns(SetRotation(c1, id, 4), id, 2)
    IN  SetCallback(RotateToSides(c2), "RotateToSides")

Anim_RotateUpToSides(c) ==
    LET c1 == IF D(c, 2) = 0
              THEN Inc(HandleStartAffineAnim(c), 2, 1)
              ELSE c
        c2 == TryFlipX(c1)
    IN  IF D(c2, 7) > 254
        THEN TryFlipX(SetCallback(ResetSpriteAfterAnim(HandleSetAffineData(
                 SetY2(SetX2(c2, 0), 0), 256, 256, 0)), "WaitAnimEnd"))
        ELSE LET c3 == SetX2(c2, -(Sin(D(c2, 7), 16)))
                 c4 == SetY2(c3, -(Sin(CMod(D(c3, 7), 128), 16)))
                 rotation == U16(Sin(D(c4, 7), 32))
                 c5 == HandleSetAffineData(c4, 256, 256, U16(rotation * 256))
             IN  TryFlipX(Inc(c5, 7, 8))

Anim_FlickerIncreasing(c) ==
    LET c1 == IF D(c, 2) = 0 THEN SetD(c, 7, 0) ELSE c
        c2 == IF D(c1, 2) = D(c1, 7)
              THEN SetInvisible(Inc(SetD(c1, 7, 0), 2, 1), FALSE)
              ELSE SetInvisible(Inc(c1, 7, 1), TRUE)
    IN  IF D(c2, 2) > 10
        THEN SetCallback(SetInvisible(c2, FALSE), "WaitAnimEnd")
        ELSE c2

Anim_TipHopForward(c) ==
    SetCallback(SetD(HandleStartAffineAnim(c), 7, 0), "TipHopForward_0")

TipHopForward_0(c) ==
    LET c1 == IF D(c, 7) > 31
              THEN SetCallback(SetDs(c, << <<7, 32>>, <<2, 0>> >>),
                               "TipHopForward_1")
              ELSE Inc(c, 7, 4)
    IN  HandleSetAffineData(c1, 256, 256, U16(D(c1, 7) * 256))

TipHopForward_1(c) ==
    LET c1 == TryFlipX(c)
        c2 == IF D(c1, 2) > 512
              THEN SetD(SetCallback(c1, "TipHopForward_2"), 6, 0)
              ELSE LET c3 == SetX2(c1, CDiv(-(D(c1, 2) * 16), 512))
                       c4 == SetY2(c3, -(Sin(CMod(D(c3, 2), 128), 4)))
                   IN  Inc(c4, 2, 12)
    IN  TryFlipX(c2)

TipHopForward_2(c) ==
    LET c1 == Inc(TryFlipX(c), 7, -2)
        c2 == IF D(c1, 7) < 0
              THEN SetCallback(ResetSpriteAfterAnim(
                       SetX2(SetD(c1, 7, 0), 0)), "WaitAnimEnd")
              ELSE SetX2(c1, -(Sin(D(c1, 7) * 2, 16)))
    IN  TryFlipX(HandleSetAffineData(c2, 256, 256, U16(D(c2, 7) * 256)))

Anim_PivotShake(c) ==
    LET c1 == IF D(c, 2) = 0
              THEN SetD(Inc(HandleStartAffineAnim(c), 2, 1), 7, 0)
              ELSE c
        c2 == TryFlipX(c1)
        c3 == IF D(c2, 7) > 255
              THEN SetCallback(ResetSpriteAfterAnim(
                       SetD(SetY2(SetX2(c2, 0), 0), 7, 0)), "WaitAnimEnd")
              ELSE LET c4 == Inc(c2, 7, 16)
                       c5 == SetX2(c4, -(Sin(CMod(D(c4, 7), 128), 8)))
                   IN  SetY2(c5, -(Sin(CMod(D(c5, 7), 128), 8)))
        rotation == U16(Sin(CMod(D(c3, 7), 128), 16))
    IN  TryFlipX(HandleSetAffineData(c3, 256, 256, U16(rotation * 256)))

Anim_TipAndShake(c) ==
    SetCallback(SetDs(HandleStartAffineAnim(c), << <<7, 0>>, <<4, 0>> >>),
                "TipAndShake_0")

\* The tail shared by TipAndShake_0 .. TipAndShake_3:
\* HandleSetAffineData(sprite, 256, 256, -(sprite->data[7]) << 8); TryFlipX
TipAndShake_Rotate(c) ==
    TryFlipX(HandleSetAffineData(c, 256, 256, U16((-(D(c, 7))) * 256)))

TipAndShake_0(c) ==
    LET c1 == TryFlipX(c)
        c2 == IF D(c1, 7) > 24
              THEN LET c3 == Inc(c1, 4, 1)
                   IN  IF D(c3, 4) > 4
                       THEN SetCallback(SetD(c3, 4, 0), "TipAndShake_1")
                       ELSE c3
              ELSE LET c3 == Inc(c1, 7, 2)
                   IN  SetY2(SetX2(c3, Sin(D(c3, 7), 8)),
                             -(Sin(D(c3, 7), 8)))
    IN  TipAndShake_Rotate(c2)

TipAndShake_1(c) ==
    LET c1 == TryFlipX(c)
        c2 == IF D(c1, 7) > 32
              THEN SetCallback(SetD(c1, 6, 1), "TipAndShake_2")
              ELSE LET c3 == Inc(c1, 7, 2)
                   IN  SetY2(SetX2(c3, Sin(D(c3, 7), 8)),
                             -(Sin(D(c3, 7), 8)))
    IN  TipAndShake_Rotate(c2)

\* TipAndShake_2 without sprite->data[5]++: the count of the shakes never
\* reaches 9.
TipAndShake_2_NoCount(c) ==
    LET c1 == TryFlipX(c)
        c2 == Inc(c1, 7, D(c1, 6) * 4)
        c3 == IF D(c2, 5) > 9
              THEN SetCallback(SetD(c2, 7, 32), "TipAndShake_3")
              ELSE c2
        c4 == SetY2(SetX2(c3, Sin(D(c3, 7), 8)), -(Sin(D(c3, 7), 8)))
        c5 == IF D(c4, 7) <= 28 \/ D(c4, 7) >= 36
              THEN SetD(c4, 6, D(c4, 6) * (-1))
              ELSE c4
    IN  TipAndShake_Rotate(c5)

TipAndShake_2(c) ==
    LET c1 == TryFlipX(c)
        c2 == Inc(c1, 7, D(c1, 6) * 4)
        c3 == IF D(c2, 5) > 9
              THEN SetCallback(SetD(c2, 7, 32), "TipAndShake_3")
              ELSE c2
        c4 == SetY2(SetX2(c3, Sin(D(c3, 7), 8)), -(Sin(D(c3, 7), 8)))
        c5 == IF D(c4, 7) <= 28 \/ D(c4, 7) >= 36
              THEN Inc(SetD(c4, 6, D(c4, 6) * (-1)), 5, 1)
              ELSE c4
    IN  TipAndShake_Rotate(c5)

TipAndShake_3(c) ==
    LET c1 == TryFlipX(c)
        c2 == IF D(c1, 7) <= 0
              THEN SetCallback(ResetSpriteAfterAnim(SetD(c1, 7, 0)),
                               "WaitAnimEnd")
              ELSE LET c3 == Inc(c1, 7, -2)
                   IN  SetY2(SetX2(c3, Sin(D(c3, 7), 8)),
                             -(Sin(D(c3, 7), 8)))
    IN  TipAndShake_Rotate(c2)

Anim_VibrateToCorners(c) ==
    LET c1 == TryFlipX(c)
        c2 == IF D(c1, 2) > 40
              THEN SetX2(SetCallback(c1, "WaitAnimEnd"), 0)
              ELSE LET sign == IF D(c1, 2) % 2 = 0 THEN 1 ELSE -1
                       s == Sin(CMod(CDiv(D(c1, 2) * 128, 40), 256), 16)
                   IN  IF CDiv(CMod(D(c1, 2), 4), 2) = 0
                       THEN LET c3 == SetX2(c1, s * sign)
                            IN  SetY2(c3, -(X2(c3)))
                       ELSE LET c3 == SetX2(c1, (-(s)) * sign)
                            IN  SetY2(c3, X2(c3))
    IN  TryFlipX(Inc(c2, 2, 1))

Anim_GrowInStages(c) ==
    LET c1 == TryFlipX(c)
        c2 == IF D(c1, 2) = 0
              THEN Inc(SetDs(HandleStartAffineAnim(c1),
                             << <<5, 0>>, <<6, 0>>, <<7, 0>> >>), 2, 1)
              ELSE c1
        c3 ==
          IF D(c2, 6) > 0
          THEN LET c4 == Inc(c2, 6, -1)
               IN  IF D(c4, 5) # 3
                   THEN LET scale0 == S16(CDiv(8 * D(c4, 6), 20))
                            scale == Sin(D(c4, 7) - scale0, 64)
                        IN  HandleSetAffineData(c4, 256 - scale, 256 - scale,
                                                0)
                   ELSE c4
          ELSE
            LET c4 ==
                  IF D(c2, 5) = 3
                  THEN IF D(c2, 7) > 63
                       THEN SetCallback(ResetSpriteAfterAnim(
                                HandleSetAffineData(SetD(c2, 7, 64),
                                                    256, 256, 0)),
                                "WaitAnimEnd")
                       ELSE c2
                  ELSE IF D(c2, 7) > 63
                       THEN SetDs(c2, << <<5, 3>>, <<6, 10>>, <<7, 0>> >>)
                       ELSE IF Sin(D(c2, 7), 64) > 48 /\ D(c2, 5) = 1
                       THEN SetDs(c2, << <<5, 2>>, <<6, 20>> >>)
                       ELSE IF Sin(D(c2, 7), 64) > 16 /\ D(c2, 5) = 0
                       THEN SetDs(c2, << <<5, 1>>, <<6, 20>> >>)
                       ELSE c2
                var == IF D(c2, 5) = 3
                       THEN Cos(D(c4, 7), 64)
                       ELSE Sin(D(c2, 7), 64)
                c5 == Inc(c4, 7, 2)
            IN  HandleSetAffineData(c5, 256 - var, 256 - var, 0)
    IN  TryFlipX(c3)

Anim_VerticalSpring(c) ==
    LET c1 == IF D(c, 2) = 0
              THEN SetD(Inc(HandleStartAffineAnim(c), 2, 1), 7, 0)
              ELSE c
    IN  IF D(c1, 7) > 512
        THEN SetCallback(ResetSpriteAfterAnim(HandleSetAffineData(
                 SetY2(c1, 0), 256, 256, 0)), "WaitAnimEnd")
        ELSE LET c2 == SetY2(c1, Sin(CMod(D(c1, 7), 256), 8))
                 c3 == Inc(c2, 7, 8)
                 yScale == Sin(CMod(D(c3, 7), 128), 96)
             IN  HandleSetAffineData(c3, 256, yScale + 256, 0)

Anim_VerticalRepeatedSpring(c) ==
    LET c1 == IF D(c, 2) = 0
              THEN SetD(Inc(HandleStartAffineAnim(c), 2, 1), 7, 0)
              ELSE c
    IN  IF D(c1, 7) > 256
        THEN SetCallback(ResetSpriteAfterAnim(HandleSetAffineData(
                 SetY2(c1, 0), 256, 256, 0)), "WaitAnimEnd")
        ELSE LET c2 == SetY2(c1, Sin(D(c1, 7), 16))
                 c3 == Inc(c2, 7, 4)
                 yScale == Sin(CMod(D(c3, 7), 64) * 2, 128)
             IN  HandleSetAffineData(c3, 256, yScale + 256, 0)

Anim_SpringRising(c) ==
    SetD(SetCallback(HandleStartAffineAnim(c), "SpringRising_0"), 7, 0)

SpringRising_0(c) ==
    LET c1 == Inc(c, 7, 8)
        c2 == IF D(c1, 7) > 63
              THEN SetCallback(SetDs(c1, << <<7, 0>>, <<6, 0>> >>),
                               "SpringRising_1")
              ELSE c1
        yScale == IF D(c1, 7) > 63 THEN Sin(64, 128) ELSE Sin(D(c1, 7), 128)
    IN  HandleSetAffineData(c2, 256, 256 + yScale, 0)

SpringRising_1(c) ==
    LET c1 == Inc(c, 7, 4)
        over == D(c1, 7) > 95
        c2 == IF over
              THEN Inc(SetD(c1, 7, 0), 6, 1)
              ELSE SetY2(c1, -(D(c1, 6) * 4) - Sin(D(c1, 7), 8))
        sign == IF D(c1, 7) > 63 THEN -1 ELSE 1
        index == IF D(c1, 7) > 63 THEN S16(D(c1, 7) - 64) ELSE 0
        yScale == IF over
                  THEN Cos(0, 128)
                  ELSE S16(Cos((index * 2) + D(c1, 7), 128) * sign)
        c3 == HandleSetAffineData(c2, 256, 256 + yScale, 0)
    IN  IF D(c3, 6) = 3
        THEN SetCallback(SetD(c3, 7, 0), "SpringRising_2")
        ELSE c3

SpringRising_2(c) ==
    LET c1 == Inc(c, 7, 8)
        yScale == Cos(D(c1, 7), 128)
        c2 == SetY2(c1, -(Cos(D(c1, 7), 12)))
        c3 == IF D(c2, 7) > 63
              THEN HandleSetAffineData(SetY2(SetCallback(
                       ResetSpriteAfterAnim(c2), "WaitAnimEnd"), 0),
                       256, 256, 0)
              ELSE c2
    IN  HandleSetAffineData(c3, 256, 256 + yScale, 0)

HorizontalSpring(c) ==
    IF D(c, 7) > D(c, 5)
    THEN HandleSetAffineData(SetCallback(ResetSpriteAfterAnim(SetX2(c, 0)),
                                         "WaitAnimEnd"), 256, 256, 0)
    ELSE LET c1 == SetX2(c, Sin(CMod(D(c, 7), 256), D(c, 4)))
             c2 == Inc(c1, 7, D(c1, 6))
             xScale == Sin(CMod(D(c2, 7), 128), 96)
         IN  HandleSetAffineData(c2, 256 + xScale, 256, 0)

\* Anim_HorizontalSpring, Anim_HorizontalSpring_Fast and
\* Anim_HorizontalSpring_Slow
Anim_HorizontalSpring(c, f) ==
    LET p == CASE f = "Anim_HorizontalSpring" -> <<8, 512, 8>>
               [] f = "Anim_HorizontalSpring_Fast" -> <<8, 512, 16>>
               [] f = "Anim_HorizontalSpring_Slow" -> <<4, 256, 16>>
        c1 == IF D(c, 2) = 0
              THEN SetDs(Inc(HandleStartAffineAnim(c), 2, 1),
                         << <<7, 0>>, <<6, p[1]>>, <<5, p[2]>>, <<4, p[3]>> >>)
              ELSE c
    IN  HorizontalSpring(c1)

HorizontalRepeatedSpring(c) ==
    IF D(c, 7) > D(c, 5)
    THEN HandleSetAffineData(SetCallback(ResetSpriteAfterAnim(SetX2(c, 0)),
                                         "WaitAnimEnd"), 256, 256, 0)
    ELSE LET c1 == SetX2(c, Sin(CMod(D(c, 7), 256), D(c, 4)))
             c2 == Inc(c1, 7, D(c1, 6))
             xScale == Sin(CMod(D(c2, 7), 64) * 2, 128)
         IN  HandleSetAffineData(c2, 256 + xScale, 256, 0)

\* Anim_HorizontalRepeatedSpring_Slow, Anim_HorizontalRepeatedSpring_Fast
\* and Anim_HorizontalRepeatedSpring
Anim_HorizontalRepeatedSpring(c, f) ==
    LET p == CASE f = "Anim_HorizontalRepeatedSpring_Slow" -> <<4, 256, 16>>
               [] f = "Anim_HorizontalRepeatedSpring_Fast" -> <<8, 512, 16>>
               [] f = "Anim_HorizontalRepeatedSpring" -> <<8, 512, 8>>
        c1 == IF D(c, 2) = 0
              THEN SetDs(Inc(HandleStartAffineAnim(c), 2, 1),
                         << <<7, 0>>, <<6, p[1]>>, <<5, p[2]>>, <<4, p[3]>> >>)
              ELSE c
    IN  HorizontalRepeatedSpring(c1)

Anim_HorizontalSlideShrink(c) ==
    LET c1 == TryFlipX(c)
        c2 == IF D(c1, 2) = 0
              THEN SetD(Inc(HandleStartAffineAnim(c1), 2, 1), 7, 0)
              ELSE c1
        c3 == IF D(c2, 7) > 512
              THEN SetCallback(HandleSetAffineData(ResetSpriteAfterAnim(
                       SetX2(c2, 0)), 256, 256, 0), "WaitAnimEnd")
              ELSE LET c4 == SetX2(c2, Sin(CMod(D(c2, 7), 256), 8))
                       c5 == Inc(c4, 7, 8)
                       scale == Sin(CMod(D(c5, 7), 128), 96)
                   IN  HandleSetAffineData(c5, 256 + scale, 256 + scale, 0)
    IN  TryFlipX(c3)

Anim_LungeGrow(c) ==
    LET c1 == TryFlipX(c)
        c2 == IF D(c1, 2) = 0
              THEN SetD(Inc(HandleStartAffineAnim(c1), 2, 1), 7, 0)
              ELSE c1
        c3 == IF D(c2, 7) > 512
              THEN SetCallback(HandleSetAffineData(ResetSpriteAfterAnim(
                       SetX2(c2, 0)), 256, 256, 0), "WaitAnimEnd")
              ELSE LET c4 == SetX2(c2,
                                 -(Sin(CDiv(CMod(D(c2, 7), 256), 2), 16)))
                       c5 == Inc(c4, 7, 8)
                       scale == S16(-(Sin(CDiv(CMod(D(c5, 7), 256), 2), 64)))
                   IN  HandleSetAffineData(c5, 256 + scale, 256 + scale, 0)
    IN  TryFlipX(c3)

Anim_CircleIntoBackground(c) ==
    LET c1 == TryFlipX(c)
        c2 == IF D(c1, 2) = 0
              THEN SetD(Inc(HandleStartAffineAnim(c1), 2, 1), 7, 0)
              ELSE c1
        c3 == IF D(c2, 7) > 512
              THEN SetCallback(HandleSetAffineData(ResetSpriteAfterAnim(
                       SetX2(c2, 0)), 256, 256, 0), "WaitAnimEnd")
              ELSE LET c4 == SetX2(c2, -(Sin(CMod(D(c2, 7), 256), 8)))
                       c5 == Inc(c4, 7, 8)
                       scale == Sin(CDiv(CMod(D(c5, 7), 256), 2), 96)
                   IN  HandleSetAffineData(c5, 256 + scale, 256 + scale, 0)
    IN  TryFlipX(c3)

Anim_RapidHorizontalHops(c) ==
    LET c1 == TryFlipX(c)
        c2 == IF D(c1, 2) > 2048
              THEN SetD(SetCallback(c1, "WaitAnimEnd"), 6, 0)
              ELSE LET caseVar == S16(CMod(CDiv(D(c1, 2), 512), 4))
                       m == CMod(D(c1, 2), 512)
                       c3 == CASE caseVar = 0 ->
                                    SetX2(c1, CDiv(-(m * 16), 512))
                               [] caseVar = 1 -> SetX2(c1, CDiv(m, 32) - 16)
                               [] caseVar = 2 -> SetX2(c1, CDiv(m, 32))
                               [] caseVar = 3 ->
                                    SetX2(c1, CDiv(-(m * 16), 512) + 16)
                               [] OTHER -> c1
                       c4 == SetY2(c3, -(Sin(CMod(D(c3, 2), 128), 4)))
                   IN  Inc(c4, 2, 24)
    IN  TryFlipX(c2)

Anim_FourPetal(c) ==
    LET c1 == TryFlipX(c)
        c2 == IF D(c1, 2) = 0
              THEN Inc(SetDs(c1, << <<6, 0>>, <<7, 64>> >>), 2, 1)
              ELSE c1
        c3 == Inc(c2, 7, 8)
        c4 == IF D(c3, 6) = 4
              THEN IF D(c3, 7) > 63
                   THEN Inc(SetD(c3, 7, 0), 6, 1) ELSE c3
              ELSE IF D(c3, 7) > 127
                   THEN Inc(SetD(c3, 7, 0), 6, 1) ELSE c3
        c5 == CASE D(c4, 6) = 1 ->
                     SetY2(SetX2(c4, -(Cos(D(c4, 7), 8))),
                           Sin(D(c4, 7), 8) - 8)
                [] D(c4, 6) = 2 ->
                     SetY2(SetX2(c4, Sin(D(c4, 7) + 128, 8) + 8),
                           -(Cos(D(c4, 7), 8)))
                [] D(c4, 6) = 3 ->
                     SetY2(SetX2(c4, Cos(D(c4, 7), 8)),
                           Sin(D(c4, 7) + 128, 8) + 8)
                [] D(c4, 6) \in {0, 4} ->
                     SetY2(SetX2(c4, Sin(D(c4, 7), 8) - 8),
                           Cos(D(c4, 7), 8))
                [] OTHER ->
                     SetCallback(SetY2(SetX2(c4, 0), 0), "WaitAnimEnd")
    IN  TryFlipX(c5)

VerticalShakeBack(c) ==
    LET counter == D(c, 2)
        c1 == IF counter > 2304
              THEN SetY2(SetCallback(c, "WaitAnimEnd"), 0)
              ELSE SetY2(c, Sin(CMod(counter + 192, 256), D(c, 7)) + D(c, 7))
    IN  Inc(c1, 2, D(c1, 0))

\* Anim_VerticalShakeBack, Anim_VerticalShakeBack_Slow and
\* Anim_VerticalShakeBack_Fast
Anim_VerticalShakeBack(c, f) ==
    LET p == CASE f = "Anim_VerticalShakeBack" -> <<60, 3>>
               [] f = "Anim_VerticalShakeBack_Slow" -> <<30, 3>>
               [] f = "Anim_VerticalShakeBack_Fast" -> <<70, 6>>
    IN  SetCallback(VerticalShakeBack(
                        SetDs(c, << <<0, p[1]>>, <<7, p[2]>> >>)),
                    "VerticalShakeBack")

\* Anim_VerticalShakeHorizontalSlide_Slow, Anim_VerticalShakeHorizontalSlide
\* and Anim_VerticalShakeHorizontalSlide_Fast
Anim_VerticalShakeHorizontalSlide(c, f) ==
    LET p == CASE f = "Anim_VerticalShakeHorizontalSlide_Slow" -> <<128, 24>>
               [] f = "Anim_VerticalShakeHorizontalSlide" -> <<128, 48>>
               [] f = "Anim_VerticalShakeHorizontalSlide_Fast" -> <<96, 64>>
        c1 == TryFlipX(c)
        c2 == IF D(c1, 2) > 2048
              THEN SetD(SetCallback(c1, "WaitAnimEnd"), 6, 0)
              ELSE LET divCase == S16(CMod(CDiv(D(c1, 2), 512), 4))
                       m == CMod(D(c1, 2), 512)
                       c3 == CASE divCase = 0 -> SetX2(c1, CDiv(m, 32))
                               [] divCase = 2 ->
                                    SetX2(c1, CDiv(-(m * 16), 512))
                               [] divCase = 1 ->
                                    SetX2(c1, CDiv(-(m * 16), 512) + 16)
                               [] divCase = 3 -> SetX2(c1, CDiv(m, 32) - 16)
                               [] OTHER -> c1
                       c4 == SetY2(c3, Sin(CMod(D(c3, 2), p[1]), 4))
                   IN  Inc(c4, 2, p[2])
    IN  TryFlipX(c2)

VerticalStretchBothEnds(c) ==
    IF D(c, 5) > D(c, 6)
    THEN LET c1 == HandleSetAffineData(SetD(SetY2(c, 0), 5, 0), 256, 256, 0)
         IN  IF D(c1, 4) <= 1
             THEN SetCallback(ResetSpriteAfterAnim(c1), "WaitAnimEnd")
             ELSE SetD(Inc(c1, 4, -1), 7, 0)
    ELSE LET index2 == S16(CDiv(D(c, 5) * 128, D(c, 6)))
             cmpVal1 == U8(CDiv(D(c, 6), 4))
             cmpVal2 == U8(cmpVal1 * 3)
             inRange == D(c, 5) >= cmpVal1 /\ D(c, 5) < cmpVal2
             c1 == IF inRange THEN Inc(c, 7, 51) ELSE c
             index1 == IF inRange THEN D(c1, 7) % 256 ELSE 0
             xScale == IF sDontFlip(c1) = 0
                       THEN S16(-256 - Sin(index2, 16))
                       ELSE S16(256 + Sin(index2, 16))
             amplitude == U8(D(c1, 3))
             yScale == S16(256 - Sin(index2, amplitude)
                           - Sin(index1, CDiv(amplitude, 5)))
         IN  Inc(SetAffineData(c1, xScale, yScale, 0), 5, 1)

\* Anim_VerticalStretchBothEnds_Slow, Anim_VerticalStretchBothEnds and
\* Anim_VerticalStretchBothEnds_Twice
Anim_VerticalStretchBothEnds(c, f) ==
    LET c1 == IF D(c, 2) = 0
              THEN LET c0 == HandleStartAffineAnim(SetD(c, 2, 1))
                   IN  CASE f = "Anim_VerticalStretchBothEnds_Slow" ->
                              SetDs(c0, << <<4, 1>>, <<6, 40>>, <<3, 40>>,
                                           <<5, 0>>, <<7, 0>> >>)
                         [] f = "Anim_VerticalStretchBothEnds" ->
                              SetDs(c0, << <<4, 1>>, <<6, 30>>, <<3, 60>>,
                                           <<7, 0>> >>)
                         [] f = "Anim_VerticalStretchBothEnds_Twice" ->
                              SetDs(c0, << <<4, 2>>, <<6, 20>>, <<3, 70>>,
                                           <<7, 0>> >>)
              ELSE c
    IN  VerticalStretchBothEnds(c1)

HorizontalStretchFar(c) ==
    IF D(c, 5) > D(c, 6)
    THEN LET c1 == HandleSetAffineData(SetD(c, 5, 0), 256, 256, 0)
         IN  IF D(c1, 4) <= 1
             THEN SetCallback(ResetSpriteAfterAnim(c1), "WaitAnimEnd")
             ELSE SetD(Inc(c1, 4, -1), 7, 0)
    ELSE LET index2 == S16(CDiv(D(c, 5) * 128, D(c, 6)))
             cmpVal1 == U8(CDiv(D(c, 6), 4))
             cmpVal2 == U8(cmpVal1 * 3)
             inRange == D(c, 5) >= cmpVal1 /\ D(c, 5) < cmpVal2
             c1 == IF inRange THEN Inc(c, 7, 51) ELSE c
             index1 == IF inRange THEN D(c1, 7) % 256 ELSE 0
             amplitude == U8(D(c1, 3))
             xScale == IF sDontFlip(c1) = 0
                       THEN S16(-256 + Sin(index2, amplitude)
                                + Sin(index1, CDiv(amplitude, 5) * 2))
                       ELSE S16(256 - Sin(index2, amplitude)
                                - Sin(index1, CDiv(amplitude, 5) * 2))
         IN  Inc(SetAffineData(c1, xScale, 256, 0), 5, 1)

\* Anim_HorizontalStretchFar_Slow, Anim_HorizontalStretchFar_Twice and
\* Anim_HorizontalStretchFar
Anim_HorizontalStretchFar(c, f) ==
    LET p == CASE f = "Anim_HorizontalStretchFar_Slow" -> <<1, 40, 40>>
               [] f = "Anim_HorizontalStretchFar_Twice" -> <<2, 20, 70>>
               [] f = "Anim_HorizontalStretchFar" -> <<1, 30, 60>>
        c1 == IF D(c, 2) = 0
              THEN SetDs(HandleStartAffineAnim(SetD(c, 2, 1)),
                         << <<4, p[1]>>, <<6, p[2]>>, <<3, p[3]>>,
                            <<5, 0>>, <<7, 0>> >>)
              ELSE c
    IN  HorizontalStretchFar(c1)

\* VerticalShakeLowTwice; q is the quotient the build yields if var6 is zero.
VerticalShakeLowTwice(c, q) ==
    LET var8 == U8(D(c, 2))
        var9 == U8(D(c, 6))
        row == At(sVerticalShakeData, D(c, 5))
        var5 == IF U8(row[1]) # U8(-1) THEN U8(D(c, 7)) ELSE U8(row[1])
        var6 == U8(row[2])
        var7 == IF row[1] # U8(-2)
                THEN IF var6 = 0 THEN U8(q)
                     ELSE U8(CDiv((var6 - var9) * var5, var6))
                ELSE 0
    IN  IF var5 = U8(-1)
        THEN SetY2(SetCallback(c, "WaitAnimEnd"), 0)
        ELSE LET c1 == SetY2(c, Sin(CMod(var8 + 192, 256), var7) + var7)
             IN  IF var9 = var6
                 THEN SetD(Inc(c1, 5, 1), 6, 0)
                 ELSE Inc(Inc(c1, 2, D(c1, 0)), 6, 1)

\* Anim_VerticalShakeLowTwice, Anim_VerticalShakeLowTwice_Slow and
\* Anim_VerticalShakeLowTwice_Fast
Anim_VerticalShakeLowTwice(c, f, q) ==
    LET p == CASE f = "Anim_VerticalShakeLowTwice" -> <<40, 6>>
               [] f = "Anim_VerticalShakeLowTwice_Slow" -> <<24, 6>>
               [] f = "Anim_VerticalShakeLowTwice_Fast" -> <<56, 9>>
    IN  SetCallback(VerticalShakeLowTwice(
                        SetDs(c, << <<0, p[1]>>, <<7, p[2]>> >>), q),
                    "VerticalShakeLowTwice")

GrowStutter(c) ==
    IF D(c, 5) > D(c, 6)
    THEN LET c1 == HandleSetAffineData(SetD(SetY2(c, 0), 5, 0), 256, 256, 0)
         IN  IF D(c1, 4) <= 1
             THEN SetCallback(ResetSpriteAfterAnim(c1), "WaitAnimEnd")
             ELSE SetD(Inc(c1, 4, -1), 7, 0)
    ELSE LET index2 == S16(CDiv(D(c, 5) * 128, D(c, 6)))
             cmpVal1 == U8(CDiv(D(c, 6), 4))
             cmpVal2 == U8(cmpVal1 * 3)
             inRange == D(c, 5) >= cmpVal1 /\ D(c, 5) < cmpVal2
             c1 == IF inRange THEN Inc(c, 7, 51) ELSE c
             index1 == IF inRange THEN D(c1, 7) % 256 ELSE 0
             amplitude == U8(D(c1, 3))
             xScale == IF sDontFlip(c1) = 0
                       THEN S16(Sin(index2, amplitude)
                                + (Sin(index1, CDiv(amplitude, 5) * 2) - 256))
                       ELSE S16(256 - Sin(index1, CDiv(amplitude, 5) * 2)
                                - Sin(index2, amplitude))
             yScale == S16(256 - Sin(index1, CDiv(amplitude, 5))
                           - Sin(index2, amplitude))
         IN  Inc(SetAffineData(c1, xScale, yScale, 0), 5, 1)

\* Anim_GrowStutter_Slow, Anim_GrowStutter_Twice and Anim_GrowStutter
Anim_GrowStutter(c, f) ==
    LET p == CASE f = "Anim_GrowStutter_Slow" -> <<1, 40, 40>>
               [] f = "Anim_GrowStutter_Twice" -> <<2, 20, 70>>
               [] f = "Anim_GrowStutter" -> <<1, 30, 60>>
        c1 == IF D(c, 2) = 0
              THEN SetDs(HandleStartAffineAnim(SetD(c, 2, 1)),
                         << <<4, p[1]>>, <<6, p[2]>>, <<3, p[3]>>,
                            <<5, 0>>, <<7, 0>> >>)
              ELSE c
    IN  GrowStutter(c1)

\* static const s8 sTriangleDownData[][3]: x, y, timer
sTriangleDownData ==
    << <<1, 1, 12>>, <<-2, 0, 12>>, <<1, -1, 12>>, <<0, 0, 0>> >>

TriangleDown(c) ==
    LET c1 == TryFlipX(c)
        c2 == IF D(c1, 2) = 0 THEN SetD(c1, 3, 0) ELSE c1
        c3 == IF CDiv(At(sTriangleDownData, D(c2, 3))[3], D(c2, 5)) = D(c2, 2)
              THEN SetD(Inc(c2, 3, 1), 2, 0)
              ELSE c2
    IN  IF CDiv(At(sTriangleDownData, D(c3, 3))[3], D(c3, 5)) = 0
        THEN LET c4 == Inc(c3, 6, -1)
             IN  IF D(c4, 6) = 0
                 THEN SetCallback(c4, "WaitAnimEnd")
                 ELSE SetD(c4, 2, 0)
        ELSE LET amplitude == D(c3, 5)
                 c4 == SetX2(c3, X2(c3)
                         + (At(sTriangleDownData, D(c3, 3))[1] * amplitude))
                 c5 == SetY2(c4, Y2(c4)
                         + (At(sTriangleDownData, D(c4, 3))[2] * D(c4, 5)))
             IN  TryFlipX(Inc(c5, 2, 1))

\* Anim_TriangleDown_Slow, Anim_TriangleDown and Anim_TriangleDown_Fast
Anim_TriangleDown(c, f) ==
    LET p == CASE f = "Anim_TriangleDown_Slow" -> <<1, 1>>
               [] f = "Anim_TriangleDown" -> <<2, 1>>
               [] f = "Anim_TriangleDown_Fast" -> <<2, 2>>
    IN  SetCallback(TriangleDown(SetDs(c, << <<5, p[1]>>, <<6, p[2]>> >>)),
                    "TriangleDown")

Grow(c) ==
    IF D(c, 7) > 255
    THEN IF D(c, 5) <= 1
         THEN HandleSetAffineData(SetCallback(ResetSpriteAfterAnim(c),
                                              "WaitAnimEnd"), 256, 256, 0)
         ELSE SetD(Inc(c, 5, -1), 7, 0)
    ELSE LET c1 == Inc(c, 7, D(c, 6))
             c2 == IF D(c1, 7) > 256 THEN SetD(c1, 7, 256) ELSE c1
             scale == Sin(CDiv(D(c2, 7), 2), 64)
         IN  HandleSetAffineData(c2, 256 - scale, 256 - scale, 0)

\* Anim_Grow and Anim_Grow_Twice
Anim_Grow(c, f) ==
    LET p == CASE f = "Anim_Grow" -> <<4, 1>>
               [] f = "Anim_Grow_Twice" -> <<8, 2>>
        c1 == TryFlipX(c)
        c2 == IF D(c1, 2) = 0
              THEN SetDs(Inc(HandleStartAffineAnim(c1), 2, 1),
                         << <<7, 0>>, <<6, p[1]>>, <<5, p[2]>> >>)
              ELSE c1
    IN  TryFlipX(Grow(c2))

ConcaveArc(c) ==
    IF D(c, 7) > 255
    THEN IF D(c, 6) <= 1
         THEN SetY2(SetX2(SetCallback(c, "WaitAnimEnd"), 0), 0)
         ELSE Inc(SetD(c, 7, CMod(D(c, 7), 256)), 6, -1)
    ELSE LET c1 == SetX2(c, -(Sin(D(c, 7), D(c, 5))))
             c2 == SetY2(c1, Sin(CMod(D(c1, 7) + 192, 256), D(c1, 4)))
             c3 == IF Y2(c2) > 0 THEN SetY2(c2, Y2(c2) * (-1)) ELSE c2
             c4 == SetY2(c3, Y2(c3) + D(c3, 4))
         IN  Inc(c4, 7, D(c4, 3))

\* Anim_ConcaveArcLarge_Slow, Anim_ConcaveArcLarge,
\* Anim_ConcaveArcLarge_Twice, Anim_ConcaveArcSmall_Slow,
\* Anim_ConcaveArcSmall and Anim_ConcaveArcSmall_Twice
Anim_ConcaveArc(c, f) ==
    LET p == CASE f = "Anim_ConcaveArcLarge_Slow" -> <<1, 12, 12, 4>>
               [] f = "Anim_ConcaveArcLarge" -> <<1, 12, 12, 6>>
               [] f = "Anim_ConcaveArcLarge_Twice" -> <<2, 12, 12, 8>>
               [] f = "Anim_ConcaveArcSmall_Slow" -> <<1, 4, 6, 4>>
               [] f = "Anim_ConcaveArcSmall" -> <<1, 4, 6, 6>>
               [] f = "Anim_ConcaveArcSmall_Twice" -> <<2, 4, 6, 8>>
        c1 == IF D(c, 2) = 0
              THEN SetDs(c, << <<2, 1>>, <<6, p[1]>>, <<7, 0>>, <<5, p[2]>>,
                               <<4, p[3]>>, <<3, p[4]>> >>)
              ELSE c
    IN  ConcaveArc(c1)

ConvexDoubleArc(c) ==
    IF D(c, 7) > 256
    THEN LET c1 == IF D(c, 6) <= D(c, 4)
                   THEN SetCallback(c, "WaitAnimEnd")
                   ELSE SetD(Inc(c, 4, 1), 7, 0)
         IN  SetY2(SetX2(c1, 0), 0)
    ELSE LET c1 == IF D(c, 7) > 159
                   THEN SetY2(c, -(Sin(CMod(D(c, 7), 256), 8)))
                   ELSE IF D(c, 7) > 95
                   THEN SetY2(c, Sin(96, 6) - Sin((D(c, 7) - 96) * 2, 4))
                   ELSE SetY2(c, Sin(D(c, 7), 6))
             posX0 == S16(-(Sin(CDiv(D(c1, 7), 2), D(c1, 5))))
             posX == IF CMod(D(c1, 4), 2) = 0 THEN S16(posX0 * (-1))
                     ELSE posX0
         IN  Inc(SetX2(c1, posX), 7, D(c1, 3))

\* Anim_ConvexDoubleArc_Slow, Anim_ConvexDoubleArc and
\* Anim_ConvexDoubleArc_Twice
Anim_ConvexDoubleArc(c, f) ==
    LET p == CASE f = "Anim_ConvexDoubleArc_Slow" -> <<2, 4>>
               [] f = "Anim_ConvexDoubleArc" -> <<2, 6>>
               [] f = "Anim_ConvexDoubleArc_Twice" -> <<3, 8>>
        c1 == IF D(c, 2) = 0
              THEN SetDs(c, << <<2, 1>>, <<6, p[1]>>, <<7, 0>>, <<5, 16>>,
                               <<4, 1>>, <<3, p[2]>> >>)
              ELSE c
    IN  ConvexDoubleArc(c1)

SetHorizontalDip(c) ==
    LET index == U16(Sin(CDiv(D(c, 2) * 128, D(c, 7)), D(c, 5)))
        c1 == SetD(c, 6, -(index * 256))
        c2 == SetPosForRotation(c1, index, D(c1, 4), 0)
    IN  HandleSetAffineData(c2, 256, 256, U16(D(c2, 6)))

\* Anim_HorizontalDip, Anim_HorizontalDip_Fast and Anim_HorizontalDip_Twice
Anim_HorizontalDip(c, f) ==
    LET p == CASE f = "Anim_HorizontalDip" -> <<60, 1>>
               [] f = "Anim_HorizontalDip_Fast" -> <<90, 1>>
               [] f = "Anim_HorizontalDip_Twice" -> <<30, 2>>
        c1 == IF D(c, 2) = 0
              THEN SetDs(HandleStartAffineAnim(c),
                         << <<7, p[1]>>, <<5, 8>>, <<4, -32>>, <<3, p[2]>>,
                            <<0, 0>> >>)
              ELSE c
    IN  IF D(c1, 2) > D(c1, 7)
        THEN LET c2 == Inc(SetY2(SetX2(HandleSetAffineData(c1, 256, 256, 0),
                                       0), 0), 0, 1)
             IN  IF D(c2, 3) <= D(c2, 0)
                 THEN SetCallback(ResetSpriteAfterAnim(c2), "WaitAnimEnd")
                 ELSE Inc(SetD(c2, 2, 0), 2, 1)
        ELSE Inc(SetHorizontalDip(c1), 2, 1)

ShrinkGrowVibrate(c) ==
    LET c1 ==
          IF D(c, 2) > D(c, 7)
          THEN SetCallback(ResetSpriteAfterAnim(HandleSetAffineData(
                   SetY2(c, 0), 256, 256, 0)), "WaitAnimEnd")
          ELSE LET index == S16(CMod(CDiv(U16(CMod(D(c, 2), D(c, 6)) * 256),
                                          D(c, 6)), 256))
                   amp == IF CMod(D(c, 2), 2) = 0 THEN 32 ELSE 8
                   c2 == SetDs(c, << <<4, Sin(index, amp) + 256>>,
                                     <<5, Sin(index, amp) + 256>> >>)
                   posY_unsigned == U8(Sin(index, amp))
                   posY_signed == S8(posY_unsigned)
                   posY == IF posY_signed < 0 THEN posY_signed + 7
                           ELSE posY_signed
                   \* (u32)posY >> 3: the low 29 bits of the floor of posY / 8
                   c3 == SetY2(c2, (posY \div 8) % 536870912)
               IN  HandleSetAffineData(c3, D(c3, 4), D(c3, 5), 0)
    IN  Inc(c1, 2, 1)

\* Anim_ShrinkGrowVibrate_Fast, Anim_ShrinkGrowVibrate and
\* Anim_ShrinkGrowVibrate_Slow
Anim_ShrinkGrowVibrate(c, f) ==
    LET p == CASE f = "Anim_ShrinkGrowVibrate_Fast" -> <<40, 80>>
               [] f = "Anim_ShrinkGrowVibrate" -> <<40, 40>>
               [] f = "Anim_ShrinkGrowVibrate_Slow" -> <<80, 80>>
        c1 == IF D(c, 2) = 0
              THEN LET c0 == HandleStartAffineAnim(c)
                   IN  SetDs(SetY2(c0, Y2(c0) + 2),
                             << <<6, p[1]>>, <<7, p[2]>> >>)
              ELSE c
    IN  ShrinkGrowVibrate(c1)

JoltRight(c) ==
    LET c1 == TryFlipX(c)
        c2 == SetX2(c1, X2(c1) - D(c1, 2))
        c3 == IF X2(c2) <= -D(c2, 6)
              THEN SetCallback(SetD(SetX2(c2, -D(c2, 6)), 7, 2), "JoltRight_0")
              ELSE c2
    IN  TryFlipX(c3)

JoltRight_0(c) ==
    LET c1 == TryFlipX(c)
        c2 == Inc(SetX2(c1, X2(c1) + D(c1, 7)), 7, 1)
        c3 == IF X2(c2) >= 0 THEN SetCallback(c2, "JoltRight_1") ELSE c2
    IN  TryFlipX(c3)

\* JoltRight_1 that hands the sprite back to JoltRight_0.
JoltRight_1_Back(c) ==
    LET c1 == TryFlipX(c)
        c2 == Inc(SetX2(c1, X2(c1) + D(c1, 7)), 7, 1)
        c3 == IF X2(c2) > D(c2, 6)
              THEN SetCallback(SetX2(c2, D(c2, 6)), "JoltRight_0")
              ELSE c2
    IN  TryFlipX(c3)

JoltRight_1(c) ==
    LET c1 == TryFlipX(c)
        c2 == Inc(SetX2(c1, X2(c1) + D(c1, 7)), 7, 1)
        c3 == IF X2(c2) > D(c2, 6)
              THEN SetCallback(SetX2(c2, D(c2, 6)), "JoltRight_2")
              ELSE c2
    IN  TryFlipX(c3)

JoltRight_2(c) ==
    LET c1 == TryFlipX(c)
        c2 == IF D(c1, 3) >= D(c1, 5)
              THEN SetCallback(c1, "JoltRight_3")
              ELSE LET c3 == SetX2(c1, X2(c1) + D(c1, 4))
                   IN  Inc(SetD(c3, 4, D(c3, 4) * (-1)), 3, 1)
    IN  TryFlipX(c2)

JoltRight_3(c) ==
    LET c1 == TryFlipX(c)
        c2 == SetX2(c1, X2(c1) - 2)
        c3 == IF X2(c2) <= 0
              THEN SetCallback(ResetSpriteAfterAnim(SetX2(c2, 0)),
                               "WaitAnimEnd")
              ELSE c2
    IN  TryFlipX(c3)

\* Anim_JoltRight_Fast, Anim_JoltRight and Anim_JoltRight_Slow
Anim_JoltRight(c, f) ==
    LET p == CASE f = "Anim_JoltRight_Fast" -> <<4, 12, 16, 4, 0, 2>>
               [] f = "Anim_JoltRight" -> <<2, 8, 12, 2, 0, 1>>
               [] f = "Anim_JoltRight_Slow" -> <<0, 6, 6, 2, 0, 1>>
    IN  SetCallback(SetDs(HandleStartAffineAnim(c),
                          << <<7, p[1]>>, <<6, p[2]>>, <<5, p[3]>>,
                             <<4, p[4]>>, <<3, p[5]>>, <<2, p[6]>> >>),
                    "JoltRight")

SetShakeFlashYellowPos(c) ==
    LET c1 == SetX2(c, D(c, 1))
    IN  IF D(c1, 0) > 1
        THEN SetD(SetD(c1, 1, D(c1, 1) * (-1)), 0, 0)
        ELSE Inc(c1, 0, 1)

\* static const struct YellowFlashData sShakeYellowFlashData_Fast[],
\* sShakeYellowFlashData_Normal[] and sShakeYellowFlashData_Slow[], and the
\* table sShakeYellowFlashData[] of the three: isYellow, time (as u8)
sShakeYellowFlashData ==
    << << <<0, 1>>, <<1, 2>>, <<0, 15>>, <<1, 1>>, <<0, 15>>, <<1, 1>>,
          <<0, 15>>, <<1, 1>>, <<0, 1>>, <<1, 1>>, <<0, 1>>, <<1, 1>>,
          <<0, 1>>, <<1, 1>>, <<0, 1>>, <<1, 1>>, <<0, 1>>, <<1, 1>>,
          <<0, 1>>, <<0, U8(-1)>> >>,
       << <<0, 5>>, <<1, 1>>, <<0, 15>>, <<1, 4>>, <<0, 2>>, <<1, 2>>,
          <<0, 2>>, <<1, 2>>, <<0, 2>>, <<1, 2>>, <<0, 2>>, <<1, 2>>,
          <<0, 2>>, <<0, U8(-1)>> >>,
       << <<0, 1>>, <<1, 1>>, <<0, 20>>, <<1, 1>>, <<0, 20>>, <<1, 1>>,
          <<0, 20>>, <<1, 1>>, <<0, 1>>, <<0, U8(-1)>> >> >>

ShakeFlashYellow(c) ==
    LET array == At(sShakeYellowFlashData, D(c, 3))
        c1 == SetShakeFlashYellowPos(c)
    IN  IF At(array, D(c1, 6))[2] = U8(-1)
        THEN SetCallback(SetX2(c1, 0), "WaitAnimEnd")
        ELSE LET c2 == IF D(c1, 4) = 1
                       THEN SetD(IF At(array, D(c1, 6))[1] # 0
                                 THEN BlendPalette(c1, D(c1, 7), 16,
                                                   "RGB_YELLOW")
                                 ELSE BlendPalette(c1, D(c1, 7), 0,
                                                   "RGB_YELLOW"), 4, 0)
                       ELSE c1
             IN  IF At(array, D(c2, 6))[2] = D(c2, 5)
                 THEN Inc(SetDs(c2, << <<4, 1>>, <<5, 0>> >>), 6, 1)
                 ELSE Inc(c2, 5, 1)

\* Anim_ShakeFlashYellow_Fast, Anim_ShakeFlashYellow and
\* Anim_ShakeFlashYellow_Slow
Anim_ShakeFlashYellow(c, f) ==
    LET data3 == CASE f = "Anim_ShakeFlashYellow_Fast" -> 0
                   [] f = "Anim_ShakeFlashYellow" -> 1
                   [] f = "Anim_ShakeFlashYellow_Slow" -> 2
        c0 == Inc(c, 2, 1)
        c1 == IF D(c0, 2) = 1
              THEN SetDs(c0, << <<7, (c0.sprite.paletteNum * 16) + 256>>,
                                <<6, 0>>, <<5, 0>>, <<4, 0>>, <<3, data3>> >>)
              ELSE c0
    IN  ShakeFlashYellow(c1)

\* enum SHAKEGLOW_* and static const u16 sColors[] of ShakeGlow_Blend
sColors ==
    <<"RGB_RED", "RGB_GREEN", "RGB_BLUE", "RGB_BLACK", "RGB_WHITE",
      "RGB_PURPLE">>

ShakeGlow_Blend(c) ==
    IF D(c, 2) > 127
    THEN SetCallback(BlendPalette(c, D(c, 7), 0, "RGB_RED"), "WaitAnimEnd")
    ELSE LET c1 == SetD(c, 6, Sin(D(c, 2), 12))
         IN  BlendPalette(c1, D(c1, 7), D(c1, 6), At(sColors, D(c1, 1)))

ShakeGlow_Move(c) ==
    IF D(c, 3) < D(c, 4)
    THEN LET c1 == TryFlipX(c)
             c2 == IF D(c1, 5) > D(c1, 0)
                   THEN LET c3 == Inc(c1, 3, 1)
                            c4 == IF D(c3, 3) < D(c3, 4)
                                  THEN SetD(c3, 5, 0) ELSE c3
                        IN  SetX2(c4, 0)
                   ELSE LET sign == S8(1 - (CMod(D(c1, 3), 2) * 2))
                            c3 == SetX2(c1, sign * Sin(CMod(CDiv(
                                      D(c1, 5) * 384, D(c1, 0)), 256), 6))
                        IN  Inc(c3, 5, 1)
         IN  TryFlipX(c2)
    ELSE c

\* Anim_ShakeGlowRed_Fast, Anim_ShakeGlowRed, Anim_ShakeGlowRed_Slow and
\* the Green, Blue, Black, White and Purple functions of the same shape.
\* The color index is the position of SHAKEGLOW_* in sColors.
Anim_ShakeGlow(c, f) ==
    LET p == CASE f = "Anim_ShakeGlowRed_Fast" -> <<10, 2, 0>>
               [] f = "Anim_ShakeGlowRed" -> <<20, 1, 0>>
               [] f = "Anim_ShakeGlowRed_Slow" -> <<80, 1, 0>>
               [] f = "Anim_ShakeGlowGreen_Fast" -> <<10, 2, 1>>
               [] f = "Anim_ShakeGlowGreen" -> <<20, 1, 1>>
               [] f = "Anim_ShakeGlowGreen_Slow" -> <<80, 1, 1>>
               [] f = "Anim_ShakeGlowBlue_Fast" -> <<10, 2, 2>>
               [] f = "Anim_ShakeGlowBlue" -> <<20, 1, 2>>
               [] f = "Anim_ShakeGlowBlue_Slow" -> <<80, 1, 2>>
               [] f = "Anim_ShakeGlowBlack_Slow" -> <<80, 1, 3>>
               [] f = "Anim_ShakeGlowWhite_Slow" -> <<80, 1, 4>>
               [] f = "Anim_ShakeGlowPurple_Slow" -> <<80, 1, 5>>
        c1 == IF D(c, 2) = 0
              THEN SetDs(c, << <<7, (c.sprite.paletteNum * 16) + 256>>,
                               <<0, p[1]>>, <<5, 0>>, <<4, p[2]>>, <<3, 0>>,
                               <<1, p[3]>> >>)
              ELSE c
        c2 == IF CMod(D(c1, 2), 2) = 0 THEN ShakeGlow_Blend(c1) ELSE c1
        c3 == IF D(c2, 2) >= CDiv(128 - D(c2, 0) * D(c2, 4), 2)
              THEN ShakeGlow_Move(c2) ELSE c2
    IN  Inc(c3, 2, 1)

-----------------------------------------------------------------------------
(* The tables of the catalogue *)

\* static void (* const sMonAnimFunctions[])(struct Sprite *sprite): entry
\* id + 1 is the function of animation id ANIM_*, in the order of the table.
sMonAnimFunctions == <<
    "Anim_VerticalSquishBounce",                  \* 0 ANIM_V_SQUISH_AND_BOUNCE
    "Anim_CircularStretchTwice",                  \* 1 ANIM_CIRCULAR_STRETCH_TWICE
    "Anim_HorizontalVibrate",                     \* 2 ANIM_H_VIBRATE
    "Anim_HorizontalSlide",                       \* 3 ANIM_H_SLIDE
    "Anim_VerticalSlide",                         \* 4 ANIM_V_SLIDE
    "Anim_BounceRotateToSides",                   \* 5 ANIM_BOUNCE_ROTATE_TO_SIDES
    "Anim_VerticalJumpsHorizontalJumps",          \* 6 ANIM_V_JUMPS_H_JUMPS
    "Anim_RotateToSides",                         \* 7 ANIM_ROTATE_TO_SIDES
    "Anim_RotateToSides_Twice",                   \* 8 ANIM_ROTATE_TO_SIDES_TWICE
    "Anim_GrowVibrate",                           \* 9 ANIM_GROW_VIBRATE
    "Anim_ZigzagFast",                            \* 10 ANIM_ZIGZAG_FAST
    "Anim_SwingConcave",                          \* 11 ANIM_SWING_CONCAVE
    "Anim_SwingConcave_Fast",                     \* 12 ANIM_SWING_CONCAVE_FAST
    "Anim_SwingConvex",                           \* 13 ANIM_SWING_CONVEX
    "Anim_SwingConvex_Fast",                      \* 14 ANIM_SWING_CONVEX_FAST
    "Anim_HorizontalShake",                       \* 15 ANIM_H_SHAKE
    "Anim_VerticalShake",                         \* 16 ANIM_V_SHAKE
    "Anim_CircularVibrate",                       \* 17 ANIM_CIRCULAR_VIBRATE
    "Anim_Twist",                                 \* 18 ANIM_TWIST
    "Anim_ShrinkGrow",                            \* 19 ANIM_SHRINK_GROW
    "Anim_CircleCounterclockwise",                \* 20 ANIM_CIRCLE_C_CLOCKWISE
    "Anim_GlowBlack",                             \* 21 ANIM_GLOW_BLACK
    "Anim_HorizontalStretch",                     \* 22 ANIM_H_STRETCH
    "Anim_VerticalStretch",                       \* 23 ANIM_V_STRETCH
    "Anim_RisingWobble",                          \* 24 ANIM_RISING_WOBBLE
    "Anim_VerticalShakeTwice",                    \* 25 ANIM_V_SHAKE_TWICE
    "Anim_TipMoveForward",                        \* 26 ANIM_TIP_MOVE_FORWARD
    "Anim_HorizontalPivot",                       \* 27 ANIM_H_PIVOT
    "Anim_VerticalSlideWobble",                   \* 28 ANIM_V_SLIDE_WOBBLE
    "Anim_HorizontalSlideWobble",                 \* 29 ANIM_H_SLIDE_WOBBLE
    "Anim_VerticalJumps_Big",                     \* 30 ANIM_V_JUMPS_BIG
    "Anim_Spin_Long",                             \* 31 ANIM_SPIN_LONG
    "Anim_GlowOrange",                            \* 32 ANIM_GLOW_ORANGE
    "Anim_GlowRed",                               \* 33 ANIM_GLOW_RED
    "Anim_GlowBlue",                              \* 34 ANIM_GLOW_BLUE
    "Anim_GlowYellow",                            \* 35 ANIM_GLOW_YELLOW
    "Anim_GlowPurple",                            \* 36 ANIM_GLOW_PURPLE
    "Anim_BackAndLunge",                          \* 37 ANIM_BACK_AND_LUNGE
    "Anim_BackFlip",                              \* 38 ANIM_BACK_FLIP
    "Anim_Flicker",                               \* 39 ANIM_FLICKER
    "Anim_BackFlipBig",                           \* 40 ANIM_BACK_FLIP_BIG
    "Anim_FrontFlip",                             \* 41 ANIM_FRONT_FLIP
    "Anim_TumblingFrontFlip",                     \* 42 ANIM_TUMBLING_FRONT_FLIP
    "Anim_Figure8",                               \* 43 ANIM_FIGURE_8
    "Anim_FlashYellow",                           \* 44 ANIM_FLASH_YELLOW
    "Anim_SwingConcave_FastShort",                \* 45 ANIM_SWING_CONCAVE_FAST_SHORT
    "Anim_SwingConvex_FastShort",                 \* 46 ANIM_SWING_CONVEX_FAST_SHORT
    "Anim_RotateUpSlamDown",                      \* 47 ANIM_ROTATE_UP_SLAM_DOWN
    "Anim_DeepVerticalSquishBounce",              \* 48 ANIM_DEEP_V_SQUISH_AND_BOUNCE
    "Anim_HorizontalJumps",                       \* 49 ANIM_H_JUMPS
    "Anim_HorizontalJumpsVerticalStretch",        \* 50 ANIM_H_JUMPS_V_STRETCH
    "Anim_RotateToSides_Fast",                    \* 51 ANIM_ROTATE_TO_SIDES_FAST
    "Anim_RotateUpToSides",                       \* 52 ANIM_ROTATE_UP_TO_SIDES
    "Anim_FlickerIncreasing",                     \* 53 ANIM_FLICKER_INCREASING
    "Anim_TipHopForward",                         \* 54 ANIM_TIP_HOP_FORWARD
    "Anim_PivotShake",                            \* 55 ANIM_PIVOT_SHAKE
    "Anim_TipAndShake",                           \* 56 ANIM_TIP_AND_SHAKE
    "Anim_VibrateToCorners",                      \* 57 ANIM_VIBRATE_TO_CORNERS
    "Anim_GrowInStages",                          \* 58 ANIM_GROW_IN_STAGES
    "Anim_VerticalSpring",                        \* 59 ANIM_V_SPRING
    "Anim_VerticalRepeatedSpring",                \* 60 ANIM_V_REPEATED_SPRING
    "Anim_SpringRising",                          \* 61 ANIM_SPRING_RISING
    "Anim_HorizontalSpring",                      \* 62 ANIM_H_SPRING
    "Anim_HorizontalRepeatedSpring_Slow",         \* 63 ANIM_H_REPEATED_SPRING_SLOW
    "Anim_HorizontalSlideShrink",                 \* 64 ANIM_H_SLIDE_SHRINK
    "Anim_LungeGrow",                             \* 65 ANIM_LUNGE_GROW
    "Anim_CircleIntoBackground",                  \* 66 ANIM_CIRCLE_INTO_BG
    "Anim_RapidHorizontalHops",                   \* 67 ANIM_RAPID_H_HOPS
    "Anim_FourPetal",                             \* 68 ANIM_FOUR_PETAL
    "Anim_VerticalSquishBounce_Slow",             \* 69 ANIM_V_SQUISH_AND_BOUNCE_SLOW
    "Anim_HorizontalSlide_Slow",                  \* 70 ANIM_H_SLIDE_SLOW
    "Anim_VerticalSlide_Slow",                    \* 71 ANIM_V_SLIDE_SLOW
    "Anim_BounceRotateToSides_Small",             \* 72 ANIM_BOUNCE_ROTATE_TO_SIDES_SMALL
    "Anim_BounceRotateToSides_Slow",              \* 73 ANIM_BOUNCE_ROTATE_TO_SIDES_SLOW
    "Anim_BounceRotateToSides_SmallSlow",         \* 74 ANIM_BOUNCE_ROTATE_TO_SIDES_SMALL_SLOW
    "Anim_ZigzagSlow",                            \* 75 ANIM_ZIGZAG_SLOW
    "Anim_HorizontalShake_Slow",                  \* 76 ANIM_H_SHAKE_SLOW
    "Anim_VertialShake_Slow",                     \* 77 ANIM_V_SHAKE_SLOW
    "Anim_Twist_Twice",                           \* 78 ANIM_TWIST_TWICE
    "Anim_CircleCounterclockwise_Slow",           \* 79 ANIM_CIRCLE_C_CLOCKWISE_SLOW
    "Anim_VerticalShakeTwice_Slow",               \* 80 ANIM_V_SHAKE_TWICE_SLOW
    "Anim_VerticalSlideWobble_Small",             \* 81 ANIM_V_SLIDE_WOBBLE_SMALL
    "Anim_VerticalJumps_Small",                   \* 82 ANIM_V_JUMPS_SMALL
    "Anim_Spin",                                  \* 83 ANIM_SPIN
    "Anim_TumblingFrontFlip_Twice",               \* 84 ANIM_TUMBLING_FRONT_FLIP_TWICE
    "Anim_DeepVerticalSquishBounce_Twice",        \* 85 ANIM_DEEP_V_SQUISH_AND_BOUNCE_TWICE
    "Anim_HorizontalJumpsVerticalStretch_Twice",  \* 86 ANIM_H_JUMPS_V_STRETCH_TWICE
    "Anim_VerticalShakeBack",                     \* 87 ANIM_V_SHAKE_BACK
    "Anim_VerticalShakeBack_Slow",                \* 88 ANIM_V_SHAKE_BACK_SLOW
    "Anim_VerticalShakeHorizontalSlide_Slow",     \* 89 ANIM_V_SHAKE_H_SLIDE_SLOW
    "Anim_VerticalStretchBothEnds_Slow",          \* 90 ANIM_V_STRETCH_BOTH_ENDS_SLOW
    "Anim_HorizontalStretchFar_Slow",             \* 91 ANIM_H_STRETCH_FAR_SLOW
    "Anim_VerticalShakeLowTwice",                 \* 92 ANIM_V_SHAKE_LOW_TWICE
    "Anim_HorizontalShake_Fast",                  \* 93 ANIM_H_SHAKE_FAST
    "Anim_HorizontalSlide_Fast",                  \* 94 ANIM_H_SLIDE_FAST
    "Anim_HorizontalVibrate_Fast",                \* 95 ANIM_H_VIBRATE_FAST
    "Anim_HorizontalVibrate_Fastest",             \* 96 ANIM_H_VIBRATE_FASTEST
    "Anim_VerticalShakeBack_Fast",                \* 97 ANIM_V_SHAKE_BACK_FAST
    "Anim_VerticalShakeLowTwice_Slow",            \* 98 ANIM_V_SHAKE_LOW_TWICE_SLOW
    "Anim_VerticalShakeLowTwice_Fast",            \* 99 ANIM_V_SHAKE_LOW_TWICE_FAST
    "Anim_CircleCounterclockwise_Long",           \* 100 ANIM_CIRCLE_C_CLOCKWISE_LONG
    "Anim_GrowStutter_Slow",                      \* 101 ANIM_GROW_STUTTER_SLOW
    "Anim_VerticalShakeHorizontalSlide",          \* 102 ANIM_V_SHAKE_H_SLIDE
    "Anim_VerticalShakeHorizontalSlide_Fast",     \* 103 ANIM_V_SHAKE_H_SLIDE_FAST
    "Anim_TriangleDown_Slow",                     \* 104 ANIM_TRIANGLE_DOWN_SLOW
    "Anim_TriangleDown",                          \* 105 ANIM_TRIANGLE_DOWN
    "Anim_TriangleDown_Fast",                     \* 106 ANIM_TRIANGLE_DOWN_TWICE
    "Anim_Grow",                                  \* 107 ANIM_GROW
    "Anim_Grow_Twice",                            \* 108 ANIM_GROW_TWICE
    "Anim_HorizontalSpring_Fast",                 \* 109 ANIM_H_SPRING_FAST
    "Anim_HorizontalSpring_Slow",                 \* 110 ANIM_H_SPRING_SLOW
    "Anim_HorizontalRepeatedSpring_Fast",         \* 111 ANIM_H_REPEATED_SPRING_FAST
    "Anim_HorizontalRepeatedSpring",              \* 112 ANIM_H_REPEATED_SPRING
    "Anim_ShrinkGrow_Fast",                       \* 113 ANIM_SHRINK_GROW_FAST
    "Anim_ShrinkGrow_Slow",                       \* 114 ANIM_SHRINK_GROW_SLOW
    "Anim_VerticalStretchBothEnds",               \* 115 ANIM_V_STRETCH_BOTH_ENDS
    "Anim_VerticalStretchBothEnds_Twice",         \* 116 ANIM_V_STRETCH_BOTH_ENDS_TWICE
    "Anim_HorizontalStretchFar_Twice",            \* 117 ANIM_H_STRETCH_FAR_TWICE
    "Anim_HorizontalStretchFar",                  \* 118 ANIM_H_STRETCH_FAR
    "Anim_GrowStutter_Twice",                     \* 119 ANIM_GROW_STUTTER_TWICE
    "Anim_GrowStutter",                           \* 120 ANIM_GROW_STUTTER
    "Anim_ConcaveArcLarge_Slow",                  \* 121 ANIM_CONCAVE_ARC_LARGE_SLOW
    "Anim_ConcaveArcLarge",                       \* 122 ANIM_CONCAVE_ARC_LARGE
    "Anim_ConcaveArcLarge_Twice",                 \* 123 ANIM_CONCAVE_ARC_LARGE_TWICE
    "Anim_ConvexDoubleArc_Slow",                  \* 124 ANIM_CONVEX_DOUBLE_ARC_SLOW
    "Anim_ConvexDoubleArc",                       \* 125 ANIM_CONVEX_DOUBLE_ARC
    "Anim_ConvexDoubleArc_Twice",                 \* 126 ANIM_CONVEX_DOUBLE_ARC_TWICE
    "Anim_ConcaveArcSmall_Slow",                  \* 127 ANIM_CONCAVE_ARC_SMALL_SLOW
    "Anim_ConcaveArcSmall",                       \* 128 ANIM_CONCAVE_ARC_SMALL
    "Anim_ConcaveArcSmall_Twice",                 \* 129 ANIM_CONCAVE_ARC_SMALL_TWICE
    "Anim_HorizontalDip",                         \* 130 ANIM_H_DIP
    "Anim_HorizontalDip_Fast",                    \* 131 ANIM_H_DIP_FAST
    "Anim_HorizontalDip_Twice",                   \* 132 ANIM_H_DIP_TWICE
    "Anim_ShrinkGrowVibrate_Fast",                \* 133 ANIM_SHRINK_GROW_VIBRATE_FAST
    "Anim_ShrinkGrowVibrate",                     \* 134 ANIM_SHRINK_GROW_VIBRATE
    "Anim_ShrinkGrowVibrate_Slow",                \* 135 ANIM_SHRINK_GROW_VIBRATE_SLOW
    "Anim_JoltRight_Fast",                        \* 136 ANIM_JOLT_RIGHT_FAST
    "Anim_JoltRight",                             \* 137 ANIM_JOLT_RIGHT
    "Anim_JoltRight_Slow",                        \* 138 ANIM_JOLT_RIGHT_SLOW
    "Anim_ShakeFlashYellow_Fast",                 \* 139 ANIM_SHAKE_FLASH_YELLOW_FAST
    "Anim_ShakeFlashYellow",                      \* 140 ANIM_SHAKE_FLASH_YELLOW
    "Anim_ShakeFlashYellow_Slow",                 \* 141 ANIM_SHAKE_FLASH_YELLOW_SLOW
    "Anim_ShakeGlowRed_Fast",                     \* 142 ANIM_SHAKE_GLOW_RED_FAST
    "Anim_ShakeGlowRed",                          \* 143 ANIM_SHAKE_GLOW_RED
    "Anim_ShakeGlowRed_Slow",                     \* 144 ANIM_SHAKE_GLOW_RED_SLOW
    "Anim_ShakeGlowGreen_Fast",                   \* 145 ANIM_SHAKE_GLOW_GREEN_FAST
    "Anim_ShakeGlowGreen",                        \* 146 ANIM_SHAKE_GLOW_GREEN
    "Anim_ShakeGlowGreen_Slow",                   \* 147 ANIM_SHAKE_GLOW_GREEN_SLOW
    "Anim_ShakeGlowBlue_Fast",                    \* 148 ANIM_SHAKE_GLOW_BLUE_FAST
    "Anim_ShakeGlowBlue",                         \* 149 ANIM_SHAKE_GLOW_BLUE
    "Anim_ShakeGlowBlue_Slow",                    \* 150 ANIM_SHAKE_GLOW_BLUE_SLOW
    "Anim_ShakeGlowBlack_Slow",                   \* 151 ANIM_SHAKE_GLOW_BLACK_SLOW
    "Anim_ShakeGlowWhite_Slow",                   \* 152 ANIM_SHAKE_GLOW_WHITE_SLOW
    "Anim_ShakeGlowPurple_Slow"                   \* 153 ANIM_SHAKE_GLOW_PURPLE_SLOW
>>

NUM_ANIMS == Len(sMonAnimFunctions)

\* The animation id ANIM_* of a function of the table.
AnimIdOf(f) == (CHOOSE i \in 1..Len(sMonAnimFunctions) : sMonAnimFunctions[i] = f) - 1

\* static const u8 sBackAnimationIds[]: three animation ids for each back
\* animation set, in the order of BACK_ANIM_* (without BACK_ANIM_NONE).
sBackAnimationIds == <<
     96,  95,   2,   \* BACK_ANIM_H_VIBRATE
     94,   3,  70,   \* BACK_ANIM_H_SLIDE
    109,  62, 110,   \* BACK_ANIM_H_SPRING
    111, 112,  63,   \* BACK_ANIM_H_SPRING_REPEATED
    113,  19, 114,   \* BACK_ANIM_SHRINK_GROW
    108, 107,  58,   \* BACK_ANIM_GROW
    100,  20,  79,   \* BACK_ANIM_CIRCLE_COUNTERCLOCKWISE
     93,  15,  76,   \* BACK_ANIM_H_SHAKE
     97,  87,  88,   \* BACK_ANIM_V_SHAKE
    103, 102,  89,   \* BACK_ANIM_V_SHAKE_H_SLIDE
    116, 115,  90,   \* BACK_ANIM_V_STRETCH
    117, 118,  91,   \* BACK_ANIM_H_STRETCH
    119, 120, 101,   \* BACK_ANIM_GROW_STUTTER
     99,  92,  98,   \* BACK_ANIM_V_SHAKE_LOW
    106, 105, 104,   \* BACK_ANIM_TRIANGLE_DOWN
    123, 122, 121,   \* BACK_ANIM_CONCAVE_ARC_LARGE
    126, 125, 124,   \* BACK_ANIM_CONVEX_DOUBLE_ARC
    129, 128, 127,   \* BACK_ANIM_CONCAVE_ARC_SMALL
    132, 130, 131,   \* BACK_ANIM_DIP_RIGHT_SIDE
    133, 134, 135,   \* BACK_ANIM_SHRINK_GROW_VIBRATE
    136, 137, 138,   \* BACK_ANIM_JOLT_RIGHT
    139, 140, 141,   \* BACK_ANIM_SHAKE_FLASH_YELLOW
    142, 143, 144,   \* BACK_ANIM_SHAKE_GLOW_RED
    145, 146, 147,   \* BACK_ANIM_SHAKE_GLOW_GREEN
    148, 149, 150    \* BACK_ANIM_SHAKE_GLOW_BLUE
>>

\* static const u8 sBackAnimNatureModTable[NUM_NATURES], in the order of
\* NATURE_*.
sBackAnimNatureModTable ==
    <<0, 2, 0, 0, 0, 1, 1, 1, 0, 1, 2, 0, 1,
      0, 0, 2, 2, 2, 2, 1, 1, 2, 1, 2, 1>>

\* static const u8 sSpeciesToBackAnimSet[NUM_SPECIES]: the back animation
\* set of every species, BACK_ANIM_H_VIBRATE = 1 to BACK_ANIM_SHAKE_GLOW_BLUE
\* = 25 in the order of the rows of sBackAnimationIds.  Entry i + 1 is the
\* species i; SPECIES_NONE (0) and the 25 species between SPECIES_CELEBI and
\* SPECIES_TREECKO have no initializer and hold 0, BACK_ANIM_NONE.
sSpeciesToBackAnimSet == <<
    0, 19, 2, 8, 18, 21, 23, 18, 18, 25, 2, 19, 17, 2, 19, 1, 15, 21, 15,
    10, 10, 15, 21, 15, 9, 22, 22, 18, 16, 18, 21, 9, 18, 21, 9, 19, 19, 16,
    1, 19, 6, 17, 9, 2, 2, 20, 2, 8, 10, 17, 9, 9, 16, 15, 2, 20, 16, 16,
    21, 21, 18, 9, 14, 20, 20, 13, 21, 9, 9, 11, 11, 11, 2, 2, 14, 8, 8, 23,
    21, 2, 19, 15, 15, 2, 15, 21, 19, 2, 11, 12, 19, 15, 1, 1, 20, 9, 19,
    20, 10, 9, 21, 21, 2, 16, 21, 16, 2, 15, 2, 6, 6, 14, 14, 18, 11, 18,
    19, 17, 17, 17, 19, 25, 20, 15, 19, 22, 23, 14, 14, 16, 9, 25, 5, 18,
    25, 22, 23, 1, 19, 19, 19, 21, 21, 19, 25, 22, 23, 2, 15, 9, 13, 18, 18,
    2, 9, 18, 21, 23, 21, 21, 9, 18, 16, 17, 15, 10, 17, 10, 2, 15, 11, 22,
    18, 19, 19, 19, 17, 18, 20, 18, 19, 22, 17, 18, 19, 2, 16, 17, 17, 17,
    16, 19, 2, 17, 11, 2, 20, 20, 18, 19, 1, 20, 11, 20, 8, 9, 15, 5, 9, 21,
    9, 13, 21, 19, 21, 15, 19, 9, 23, 23, 10, 8, 2, 2, 5, 15, 2, 21, 9, 9,
    25, 21, 14, 1, 19, 2, 15, 7, 2, 8, 23, 2, 19, 22, 23, 25, 14, 9, 14, 25,
    23, 24, 0, 0, 0, 0, 0, 0, 0, 0, 0, 0, 0, 0, 0, 0, 0, 0, 0, 0, 0, 0, 0,
    0, 0, 0, 0, 16, 21, 9, 18, 16, 23, 2, 18, 25, 18, 8, 15, 21, 8, 8, 17,
    11, 15, 2, 16, 16, 19, 9, 20, 10, 1, 20, 17, 21, 19, 21, 7, 18, 17, 3,
    17, 25, 25, 19, 18, 1, 19, 20, 14, 23, 1, 11, 9, 4, 15, 21, 3, 25, 4,
    21, 19, 1, 15, 14, 14, 21, 9, 14, 23, 19, 9, 9, 10, 8, 15, 15, 19, 19,
    16, 16, 20, 18, 18, 9, 20, 20, 17, 17, 18, 1, 1, 24, 2, 16, 8, 11, 11,
    14, 19, 9, 13, 19, 17, 17, 20, 1, 1, 11, 21, 2, 21, 9, 14, 17, 17, 17,
    12, 11, 15, 9, 20, 20, 20, 9, 9, 8, 15, 21, 9, 9, 9, 9, 25, 23, 13, 1,
    1, 17, 20, 17 >>

BACK_ANIM_NONE == 0

\* GetSpeciesBackAnimSet that returns the entry as stored.
GetSpeciesBackAnimSet_Stored(species) == sSpeciesToBackAnimSet[species + 1]

\* u8 GetSpeciesBackAnimSet(u16 species)
GetSpeciesBackAnimSet(species) ==
    IF sSpeciesToBackAnimSet[species + 1] # BACK_ANIM_NONE
    THEN sSpeciesToBackAnimSet[species + 1] - 1
    ELSE 0

\* sprite.c, AnimateSprites: sprite->callback(sprite).  q is the quotient the
\* build yields for a division by zero in the callbacks that make one.
RunCallback(c, q) ==
    LET f == c.sprite.callback IN
    CASE f = "SpriteCallbackDummy" -> SpriteCallbackDummy(c)
      [] f = "MonAnimDummySpriteCallback" -> MonAnimDummySpriteCallback(c)
      [] f = "WaitAnimEnd" -> WaitAnimEnd(c)
      [] f \in {"Anim_VerticalSquishBounce",
           "Anim_VerticalSquishBounce_Slow"}
           -> Anim_VerticalSquishBounce(c, f)
      [] f = "Anim_CircularStretchTwice" -> Anim_CircularStretchTwice(c)
      [] f \in {"Anim_HorizontalVibrate", "Anim_HorizontalVibrate_Fast",
           "Anim_HorizontalVibrate_Fastest"}
           -> Anim_HorizontalVibrate(c, f)
      [] f \in {"Anim_HorizontalSlide", "Anim_HorizontalSlide_Slow",
           "Anim_HorizontalSlide_Fast"}
           -> Anim_HorizontalSlide(c, f)
      [] f \in {"Anim_VerticalSlide", "Anim_VerticalSlide_Slow"}
           -> Anim_VerticalSlide(c, f)
      [] f \in {"Anim_BounceRotateToSides",
           "Anim_BounceRotateToSides_Small", "Anim_BounceRotateToSides_Slow",
           "Anim_BounceRotateToSides_SmallSlow"}
           -> Anim_BounceRotateToSides(c, f)
      [] f = "Anim_VerticalJumpsHorizontalJumps"
           -> Anim_VerticalJumpsHorizontalJumps(c)
      [] f \in {"Anim_RotateToSides", "Anim_RotateToSides_Twice",
           "Anim_RotateToSides_Fast"}
           -> Anim_RotateToSides(c, f)
      [] f = "Anim_GrowVibrate" -> Anim_GrowVibrate(c)
      [] f = "Anim_ZigzagFast" -> Anim_ZigzagFast(c)
      [] f \in {"Anim_SwingConcave", "Anim_SwingConcave_Fast",
           "Anim_SwingConcave_FastShort"}
           -> Anim_SwingConcave(c, f)
      [] f \in {"Anim_SwingConvex", "Anim_SwingConvex_Fast",
           "Anim_SwingConvex_FastShort"}
           -> Anim_SwingConvex(c, f)
      [] f \in {"Anim_HorizontalShake", "Anim_HorizontalShake_Slow",
           "Anim_HorizontalShake_Fast"}
           -> Anim_HorizontalShake(c, f)
      [] f \in {"Anim_VerticalShake", "Anim_VertialShake_Slow"}
           -> Anim_VerticalShake(c, f)
      [] f = "Anim_CircularVibrate" -> Anim_CircularVibrate(c)
      [] f \in {"Anim_Twist", "Anim_Twist_Twice"} -> Anim_Twist(c, f)
      [] f \in {"Anim_ShrinkGrow", "Anim_ShrinkGrow_Fast",
           "Anim_ShrinkGrow_Slow"}
           -> Anim_ShrinkGrow(c, f)
      [] f \in {"Anim_CircleCounterclockwise",
           "Anim_CircleCounterclockwise_Slow",
           "Anim_CircleCounterclockwise_Long"}
           -> Anim_CircleCounterclockwise(c, f)
      [] f \in {"Anim_GlowBlack", "Anim_GlowOrange", "Anim_GlowRed",
           "Anim_GlowBlue", "Anim_GlowYellow", "Anim_GlowPurple"}
           -> Anim_Glow(c, f)
      [] f = "Anim_HorizontalStretch" -> Anim_HorizontalStretch(c)
      [] f = "Anim_VerticalStretch" -> Anim_VerticalStretch(c)
      [] f = "Anim_RisingWobble" -> Anim_RisingWobble(c)
      [] f \in {"Anim_VerticalShakeTwice", "Anim_VerticalShakeTwice_Slow"}
           -> Anim_VerticalShakeTwice(c, f, q)
      [] f = "Anim_TipMoveForward" -> Anim_TipMoveForward(c)
      [] f = "Anim_HorizontalPivot" -> Anim_HorizontalPivot(c)
      [] f \in {"Anim_VerticalSlideWobble",
           "Anim_VerticalSlideWobble_Small"}
           -> Anim_VerticalSlideWobble(c, f)
      [] f = "Anim_HorizontalSlideWobble" -> Anim_HorizontalSlideWobble(c)
      [] f \in {"Anim_VerticalJumps_Big", "Anim_VerticalJumps_Small"}
           -> Anim_VerticalJumps(c, f)
      [] f \in {"Anim_Spin_Long", "Anim_Spin"} -> Anim_Spin(c, f)
      [] f = "Anim_BackAndLunge" -> Anim_BackAndLunge(c)
      [] f = "Anim_BackFlip" -> Anim_BackFlip(c)
      [] f = "Anim_Flicker" -> Anim_Flicker(c)
      [] f = "Anim_BackFlipBig" -> Anim_BackFlipBig(c)
      [] f = "Anim_FrontFlip" -> Anim_FrontFlip(c)
      [] f \in {"Anim_TumblingFrontFlip", "Anim_TumblingFrontFlip_Twice"}
           -> Anim_TumblingFrontFlip(c, f)
      [] f = "Anim_Figure8" -> Anim_Figure8(c)
      [] f = "Anim_FlashYellow" -> Anim_FlashYellow(c)
      [] f = "Anim_RotateUpSlamDown" -> Anim_RotateUpSlamDown(c)
      [] f \in {"Anim_DeepVerticalSquishBounce",
           "Anim_DeepVerticalSquishBounce_Twice"}
           -> Anim_DeepVerticalSquishBounce(c, f)
      [] f = "Anim_HorizontalJumps" -> Anim_HorizontalJumps(c)
      [] f \in {"Anim_HorizontalJumpsVerticalStretch",
           "Anim_HorizontalJumpsVerticalStretch_Twice"}
           -> Anim_HorizontalJumpsVerticalStretch(c, f)
      [] f = "Anim_RotateUpToSides" -> Anim_RotateUpToSides(c)
      [] f = "Anim_FlickerIncreasing" -> Anim_FlickerIncreasing(c)
      [] f = "Anim_TipHopForward" -> Anim_TipHopForward(c)
      [] f = "Anim_PivotShake" -> Anim_PivotShake(c)
      [] f = "Anim_TipAndShake" -> Anim_TipAndShake(c)
      [] f = "Anim_VibrateToCorners" -> Anim_VibrateToCorners(c)
      [] f = "Anim_GrowInStages" -> Anim_GrowInStages(c)
      [] f = "Anim_VerticalSpring" -> Anim_VerticalSpring(c)
      [] f = "Anim_VerticalRepeatedSpring" -> Anim_VerticalRepeatedSpring(c)
      [] f = "Anim_SpringRising" -> Anim_SpringRising(c)
      [] f \in {"Anim_HorizontalSpring", "Anim_HorizontalSpring_Fast",
           "Anim_HorizontalSpring_Slow"}
           -> Anim_HorizontalSpring(c, f)
      [] f \in {"Anim_HorizontalRepeatedSpring_Slow",
           "Anim_HorizontalRepeatedSpring_Fast",
           "Anim_HorizontalRepeatedSpring"}
           -> Anim_HorizontalRepeatedSpring(c, f)
      [] f = "Anim_HorizontalSlideShrink" -> Anim_HorizontalSlideShrink(c)
      [] f = "Anim_LungeGrow" -> Anim_LungeGrow(c)
      [] f = "Anim_CircleIntoBackground" -> Anim_CircleIntoBackground(c)
      [] f = "Anim_RapidHorizontalHops" -> Anim_RapidHorizontalHops(c)
      [] f = "Anim_FourPetal" -> Anim_FourPetal(c)
      [] f = "Anim_ZigzagSlow" -> Anim_ZigzagSlow(c)
      [] f \in {"Anim_VerticalShakeBack", "Anim_VerticalShakeBack_Slow",
           "Anim_VerticalShakeBack_Fast"}
           -> Anim_VerticalShakeBack(c, f)
      [] f \in {"Anim_VerticalShakeHorizontalSlide_Slow",
           "Anim_VerticalShakeHorizontalSlide",
           "Anim_VerticalShakeHorizontalSlide_Fast"}
           -> Anim_VerticalShakeHorizontalSlide(c, f)
      [] f \in {"Anim_VerticalStretchBothEnds_Slow",
           "Anim_VerticalStretchBothEnds",
           "Anim_VerticalStretchBothEnds_Twice"}
           -> Anim_VerticalStretchBothEnds(c, f)
      [] f \in {"Anim_HorizontalStretchFar_Slow",
           "Anim_HorizontalStretchFar_Twice", "Anim_HorizontalStretchFar"}
           -> Anim_HorizontalStretchFar(c, f)
      [] f \in {"Anim_VerticalShakeLowTwice",
           "Anim_VerticalShakeLowTwice_Slow",
           "Anim_VerticalShakeLowTwice_Fast"}
           -> Anim_VerticalShakeLowTwice(c, f, q)
      [] f \in {"Anim_GrowStutter_Slow", "Anim_GrowStutter_Twice",
           "Anim_GrowStutter"}
           -> Anim_GrowStutter(c, f)
      [] f \in {"Anim_TriangleDown_Slow", "Anim_TriangleDown",
           "Anim_TriangleDown_Fast"}
           -> Anim_TriangleDown(c, f)
      [] f \in {"Anim_Grow", "Anim_Grow_Twice"} -> Anim_Grow(c, f)
      [] f \in {"Anim_ConcaveArcLarge_Slow", "Anim_ConcaveArcLarge",
           "Anim_ConcaveArcLarge_Twice", "Anim_ConcaveArcSmall_Slow",
           "Anim_ConcaveArcSmall", "Anim_ConcaveArcSmall_Twice"}
           -> Anim_ConcaveArc(c, f)
      [] f \in {"Anim_ConvexDoubleArc_Slow", "Anim_ConvexDoubleArc",
           "Anim_ConvexDoubleArc_Twice"}
           -> Anim_ConvexDoubleArc(c, f)
      [] f \in {"Anim_HorizontalDip", "Anim_HorizontalDip_Fast",
           "Anim_HorizontalDip_Twice"}
           -> Anim_HorizontalDip(c, f)
      [] f \in {"Anim_ShrinkGrowVibrate_Fast", "Anim_ShrinkGrowVibrate",
           "Anim_ShrinkGrowVibrate_Slow"}
           -> Anim_ShrinkGrowVibrate(c, f)
      [] f \in {"Anim_JoltRight_Fast", "Anim_JoltRight",
           "Anim_JoltRight_Slow"}
           -> Anim_JoltRight(c, f)
      [] f \in {"Anim_ShakeFlashYellow_Fast", "Anim_ShakeFlashYellow",
           "Anim_ShakeFlashYellow_Slow"}
           -> Anim_ShakeFlashYellow(c, f)
      [] f \in {"Anim_ShakeGlowRed_Fast", "Anim_ShakeGlowRed",
           "Anim_ShakeGlowRed_Slow", "Anim_ShakeGlowGreen_Fast",
           "Anim_ShakeGlowGreen", "Anim_ShakeGlowGreen_Slow",
           "Anim_ShakeGlowBlue_Fast", "Anim_ShakeGlowBlue",
           "Anim_ShakeGlowBlue_Slow", "Anim_ShakeGlowBlack_Slow",
           "Anim_ShakeGlowWhite_Slow", "Anim_ShakeGlowPurple_Slow"}
           -> Anim_ShakeGlow(c, f)
      [] f = "BackAndLunge_0" -> BackAndLunge_0(c)
      [] f = "BackAndLunge_1" -> BackAndLunge_1(c)
      [] f = "BackAndLunge_2" -> BackAndLunge_2(c)
      [] f = "BackAndLunge_3" -> BackAndLunge_3(c)
      [] f = "BackAndLunge_4" -> BackAndLunge_4(c)
      [] f = "BackFlipBig_0" -> BackFlipBig_0(c)
      [] f = "BackFlipBig_1" -> BackFlipBig_1(c)
      [] f = "BackFlipBig_2" -> BackFlipBig_2(c)
      [] f = "BackFlip_0" -> BackFlip_0(c)
      [] f = "BackFlip_1" -> BackFlip_1(c)
      [] f = "BackFlip_2" -> BackFlip_2(c)
      [] f = "BounceRotateToSides" -> BounceRotateToSides(c)
      [] f = "CircleCounterclockwise" -> CircleCounterclockwise(c)
      [] f = "DeepVerticalSquishBounce" -> DeepVerticalSquishBounce(c)
      [] f = "Figure8" -> Figure8(c)
      [] f = "FrontFlip_0" -> FrontFlip_0(c)
      [] f = "FrontFlip_1" -> FrontFlip_1(c)
      [] f = "FrontFlip_2" -> FrontFlip_2(c)
      [] f = "HorizontalJumpsVerticalStretch_0"
           -> HorizontalJumpsVerticalStretch_0(c)
      [] f = "HorizontalJumpsVerticalStretch_1"
           -> HorizontalJumpsVerticalStretch_1(c)
      [] f = "HorizontalJumpsVerticalStretch_2"
           -> HorizontalJumpsVerticalStretch_2(c)
      [] f = "HorizontalShake" -> HorizontalShake(c)
      [] f = "HorizontalSlide" -> HorizontalSlide(c)
      [] f = "JoltRight" -> JoltRight(c)
      [] f = "JoltRight_0" -> JoltRight_0(c)
      [] f = "JoltRight_1" -> JoltRight_1(c)
      [] f = "JoltRight_2" -> JoltRight_2(c)
      [] f = "JoltRight_3" -> JoltRight_3(c)
      [] f = "RisingWobble" -> RisingWobble(c)
      [] f = "RotateToSides" -> RotateToSides(c)
      [] f = "RotateUpSlamDown_0" -> RotateUpSlamDown_0(c)
      [] f = "RotateUpSlamDown_1" -> RotateUpSlamDown_1(c)
      [] f = "RotateUpSlamDown_2" -> RotateUpSlamDown_2(c)
      [] f = "Spin" -> Spin(c)
      [] f = "SpringRising_0" -> SpringRising_0(c)
      [] f = "SpringRising_1" -> SpringRising_1(c)
      [] f = "SpringRising_2" -> SpringRising_2(c)
      [] f = "SwingConcave" -> SwingConcave(c)
      [] f = "SwingConvex" -> SwingConvex(c)
      [] f = "TipAndShake_0" -> TipAndShake_0(c)
      [] f = "TipAndShake_1" -> TipAndShake_1(c)
      [] f = "TipAndShake_2" -> TipAndShake_2(c)
      [] f = "TipAndShake_3" -> TipAndShake_3(c)
      [] f = "TipHopForward_0" -> TipHopForward_0(c)
      [] f = "TipHopForward_1" -> TipHopForward_1(c)
      [] f = "TipHopForward_2" -> TipHopForward_2(c)
      [] f = "TriangleDown" -> TriangleDown(c)
      [] f = "TumblingFrontFlip" -> TumblingFrontFlip(c)
      [] f = "Twist" -> Twist(c)
      [] f = "VerticalJumps" -> VerticalJumps(c)
      [] f = "VerticalShake" -> VerticalShake(c)
      [] f = "VerticalShakeBack" -> VerticalShakeBack(c)
      [] f = "VerticalShakeLowTwice" -> VerticalShakeLowTwice(c, q)
      [] f = "VerticalShakeTwice" -> VerticalShakeTwice(c, q)
      [] f = "VerticalSlide" -> VerticalSlide(c)
      [] f = "VerticalSlideWobble" -> VerticalSlideWobble(c)
      [] f = "VerticalSquishBounce" -> VerticalSquishBounce(c)
      [] f = "Zigzag" -> Zigzag(c)

-----------------------------------------------------------------------------
(* The host: sprites, tasks and the frame loop *)

\* The scratch registers data[0..7] a host leaves in a sprite before a
\* launch: all zero, or a battler id, a flag and a species with a leftover.
HostData ==
    { [i \in 0..7 |-> 0],
      [i \in 0..7 |-> CASE i = 0 -> 3 [] i = 1 -> 1 [] i = 2 -> 277
                        [] OTHER -> 5] }

\* The fields of struct Sprite the file reads or writes, for a sprite of a
\* mon that no animation has touched, with scratch registers h.  affineSet
\* tells whether the last callback call wrote the affine data.
IdleSprite(h) ==
    [data |-> h, x2 |-> 0, y2 |-> 0,
     callback |-> "SpriteCallbackDummy", invisible |-> FALSE,
     animEnded |-> FALSE, paletteNum |-> 2,
     affineMode |-> "ST_OAM_AFFINE_OFF", affineAnims |-> "none",
     affineAnimInited |-> FALSE, affineAnimNum |-> 0,
     affineAnimPaused |-> FALSE, affineStarts |-> 0,
     centerToCornerVecX |-> -32,
     matrix |-> [xScale |-> 256, yScale |-> 256, rotation |-> 0],
     affineSet |-> FALSE, hFlip |-> FALSE, matrixFreed |-> FALSE,
     matrixNumFlipBit |-> FALSE,
     blend |-> [palOffset |-> 0, coeff |-> 0, color |-> "none"]]

\* The fields of struct Task the file uses, for a free slot of gTasks.
IdleTask ==
    [isActive |-> FALSE, tState |-> 0, tPtrHi |-> 0, tPtrLo |-> 0,
     tAnimId |-> 0, tBattlerId |-> 0, tSpeciesId |-> 0]

\* The address of gSprites[s]: gSprites at 0x02020630 in the vanilla link
\* order, moved by hist.link in another link order; sizeof(struct Sprite)
\* is 0x44.
SpriteAddr(s) == 33687088 + hist.link + (68 * s)

\* The upper and the lower half of a 32-bit address.
Halves(addr) == <<addr \div 65536, addr % 65536>>

\* #define ANIM_SPRITE(taskId) with MODERN not defined, as the halves of a
\* u32: tPtrLo is read as an s16, so a set bit 15 fills the upper half of
\* the address with ones.
AnimSpritePtr(tasks, taskId) ==
    LET hi == tasks[taskId].tPtrHi
        lo == tasks[taskId].tPtrLo
        upper == IF lo < 0 THEN 65535 ELSE U16(hi)
        lower == U16(lo)
    IN  <<upper, lower>>

\* The sprite of gSprites at the address the macro yields; 0 if the address
\* is that of no sprite.
ANIM_SPRITE(tasks, taskId) ==
    IF \E s \in SpriteIds :
           Halves(SpriteAddr(s)) = AnimSpritePtr(tasks, taskId)
    THEN CHOOSE s \in SpriteIds :
             Halves(SpriteAddr(s)) = AnimSpritePtr(tasks, taskId)
    ELSE 0

\* task.c, CreateTask(func, priority): the first free slot of gTasks, all
\* its data zero.
FreeTasks(tasks) == {t \in TaskIds : ~tasks[t].isActive}

CreateTask(tasks) ==
    CHOOSE t \in FreeTasks(tasks) : \A u \in FreeTasks(tasks) : t <= u

\* The outcomes of the read sMonAnimFunctions[id] of an id past the last
\* entry, which the C standard leaves undefined: the word found there is
\* the address of a callback that does nothing, of a function of the
\* catalogue, or of no function at all.
OutOfBoundsFunctions ==
    {"SpriteCallbackDummy", "Anim_HorizontalSlide", "WildPointer"}

\* sMonAnimFunctions[id] as the task reads it: no comparison of id with the
\* length of the table precedes the read.
MonAnimFunctionAt(id, g) ==
    IF id < NUM_ANIMS THEN sMonAnimFunctions[id + 1] ELSE g

\* The outcomes of the read sBackAnimationIds[animId] of an index past the
\* last entry: any byte.
OutOfBoundsBytes == {0, 96, 154, 255}

\* BackAnimationIdAt that reads the entry after the one asked for.
BackAnimationIdAt_NextEntry(animId, g) ==
    IF animId + 1 < Len(sBackAnimationIds)
    THEN sBackAnimationIds[animId + 2] ELSE g

\* sBackAnimationIds[animId] as the back launch reads it.
BackAnimationIdAt(animId, g) ==
    IF animId < Len(sBackAnimationIds)
    THEN sBackAnimationIds[animId + 1] ELSE g

\* The state of the program as one record.
World ==
    [sprites |-> sprites, gTasks |-> gTasks, sAnims |-> sAnims,
     sAnimIdx |-> sAnimIdx, sIsSummaryAnim |-> sIsSummaryAnim]

\* Task_HandleMonAnimation on an address that is that of no sprite: what it
\* writes through the pointer lands outside gSprites, and what it reads
\* through it is whatever lies there.  g is the word read as the callback;
\* the registers read are 0 where that word is SpriteCallbackDummy and -1
\* where it is not.
Task_HandleMonAnimation_Wild(w, taskId, g) ==
    LET read == IF g = "SpriteCallbackDummy" THEN 0 ELSE -1
        w1 == IF w.gTasks[taskId].tState = 0
              THEN [w EXCEPT
                      !.gTasks[taskId].tBattlerId = read,
                      !.gTasks[taskId].tSpeciesId = read,
                      !.sIsSummaryAnim = FALSE,
                      !.gTasks[taskId].tState = S16(@ + 1)]
              ELSE w
    IN  IF g = "SpriteCallbackDummy"
        THEN [w1 EXCEPT !.gTasks[taskId] = IdleTask]
        ELSE w1

\* Task_HandleMonAnimation that hands data[1] back as it found it at the
\* end, TRUE, instead of clearing sDontFlip.
Task_HandleMonAnimation_KeepFlag(w, taskId, g) ==
    LET s == ANIM_SPRITE(w.gTasks, taskId)
        w1 == IF w.gTasks[taskId].tState = 0
              THEN [w EXCEPT
                      !.gTasks[taskId].tBattlerId = w.sprites[s].data[0],
                      !.gTasks[taskId].tSpeciesId = w.sprites[s].data[2],
                      !.sprites[s].data =
                          [i \in 0..7 |-> IF i = 1 THEN 1 ELSE 0],
                      !.sprites[s].callback =
                          MonAnimFunctionAt(w.gTasks[taskId].tAnimId, g),
                      !.sIsSummaryAnim = FALSE,
                      !.gTasks[taskId].tState = S16(@ + 1)]
              ELSE w
    IN  IF w1.sprites[s].callback = "SpriteCallbackDummy"
        THEN [w1 EXCEPT
                !.sprites[s].data[0] = w1.gTasks[taskId].tBattlerId,
                !.sprites[s].data[2] = w1.gTasks[taskId].tSpeciesId,
                !.gTasks[taskId] = IdleTask]
        ELSE w1

\* Task_HandleMonAnimation that takes WaitAnimEnd for the end of the
\* animation.
Task_HandleMonAnimation_EarlyEnd(w, taskId, g) ==
    LET s == ANIM_SPRITE(w.gTasks, taskId)
        w1 == IF w.gTasks[taskId].tState = 0
              THEN [w EXCEPT
                      !.gTasks[taskId].tBattlerId = w.sprites[s].data[0],
                      !.gTasks[taskId].tSpeciesId = w.sprites[s].data[2],
                      !.sprites[s].data =
                          [i \in 0..7 |-> IF i = 1 THEN 1 ELSE 0],
                      !.sprites[s].callback =
                          MonAnimFunctionAt(w.gTasks[taskId].tAnimId, g),
                      !.sIsSummaryAnim = FALSE,
                      !.gTasks[taskId].tState = S16(@ + 1)]
              ELSE w
    IN  IF w1.sprites[s].callback = "WaitAnimEnd"
        THEN [w1 EXCEPT
                !.sprites[s].data[0] = w1.gTasks[taskId].tBattlerId,
                !.sprites[s].data[2] = w1.gTasks[taskId].tSpeciesId,
                !.sprites[s].data[1] = 0,
                !.gTasks[taskId] = IdleTask]
        ELSE w1

\* Task_HandleMonAnimation whose first step clears data[3..7] only.
Task_HandleMonAnimation_From3(w, taskId, g) ==
    LET s == ANIM_SPRITE(w.gTasks, taskId)
        w1 == IF w.gTasks[taskId].tState = 0
              THEN [w EXCEPT
                      !.gTasks[taskId].tBattlerId = w.sprites[s].data[0],
                      !.gTasks[taskId].tSpeciesId = w.sprites[s].data[2],
                      !.sprites[s].data =
                          [i \in 0..7 |-> CASE i = 0 -> 0
                                            [] i = 1 -> 1
                                            [] i = 2 -> @[2]
                                            [] OTHER -> 0],
                      !.sprites[s].callback =
                          MonAnimFunctionAt(w.gTasks[taskId].tAnimId, g),
                      !.sIsSummaryAnim = FALSE,
                      !.gTasks[taskId].tState = S16(@ + 1)]
              ELSE w
    IN  IF w1.sprites[s].callback = "SpriteCallbackDummy"
        THEN [w1 EXCEPT
                !.sprites[s].data[0] = w1.gTasks[taskId].tBattlerId,
                !.sprites[s].data[2] = w1.gTasks[taskId].tSpeciesId,
                !.sprites[s].data[1] = 0,
                !.gTasks[taskId] = IdleTask]
        ELSE w1

\* static void Task_HandleMonAnimation(u8 taskId); g is the word the build
\* holds where sMonAnimFunctions[tAnimId] lies beyond the table.
Task_HandleMonAnimation(w, taskId, g) ==
    LET s == ANIM_SPRITE(w.gTasks, taskId)
        w1 == IF w.gTasks[taskId].tState = 0
              THEN [w EXCEPT
                      !.gTasks[taskId].tBattlerId = w.sprites[s].data[0],
                      !.gTasks[taskId].tSpeciesId = w.sprites[s].data[2],
                      !.sprites[s].data =
                          [i \in 0..7 |-> IF i = 1 THEN 1 ELSE 0],
                      !.sprites[s].callback =
                          MonAnimFunctionAt(w.gTasks[taskId].tAnimId, g),
                      !.sIsSummaryAnim = FALSE,
                      !.gTasks[taskId].tState = S16(@ + 1)]
              ELSE w
    IN  IF s = 0
        THEN Task_HandleMonAnimation_Wild(w, taskId, g)
        ELSE IF w1.sprites[s].callback = "SpriteCallbackDummy"
        THEN [w1 EXCEPT
                !.sprites[s].data[0] = w1.gTasks[taskId].tBattlerId,
                !.sprites[s].data[2] = w1.gTasks[taskId].tSpeciesId,
                !.sprites[s].data[1] = 0,
                !.gTasks[taskId] = IdleTask]
        ELSE w1

\* task.c, RunTasks: every active task of gTasks runs once, from slot t on.
RECURSIVE RunTasksFrom(_, _, _)
RunTasksFrom(w, t, g) ==
    IF t >= NumTasks
    THEN w
    ELSE RunTasksFrom(IF w.gTasks[t].isActive
                      THEN Task_HandleMonAnimation(w, t, g) ELSE w,
                      t + 1, g)

\* sprite.c, AnimateSprites for one sprite: its callback runs on it.
CallSprite(w, s, q) ==
    LET Return(r) == [w EXCEPT !.sprites[s] = r.sprite, !.sAnims = r.sAnims,
                               !.sAnimIdx = r.sAnimIdx]
    IN  Return(RunCallback(Ctx([w.sprites[s] EXCEPT !.affineSet = FALSE],
                               w.sAnims, w.sAnimIdx, w.sIsSummaryAnim), q))

\* sprite.c, AnimateSprites: every sprite's callback runs once, from sprite
\* s on.
RECURSIVE AnimateSpritesFrom(_, _, _)
AnimateSpritesFrom(w, s, q) ==
    IF s > NumSprites
    THEN w
    ELSE AnimateSpritesFrom(CallSprite(w, s, q), s + 1, q)

\* The callbacks that are no step of an animation.
TerminalCallbacks ==
    {"WaitAnimEnd", "SpriteCallbackDummy", "MonAnimDummySpriteCallback"}

-----------------------------------------------------------------------------
(* The history the properties read *)

\* The record of a sprite no animation was launched on.
NoRun ==
    [mode |-> "none", animId |-> -1, ticks |-> 0, endedBy |-> "none",
     host |-> [i \in 0..7 |-> 0], task |-> -1, replaced |-> {}]

\* The record of a launch: how it was made, the animation id, the scratch
\* registers at the launch and the task created for it.
NewRun(mode, animId, host, task) ==
    [mode |-> mode, animId |-> animId, ticks |-> 0, endedBy |-> "none",
     host |-> host, task |-> task, replaced |-> {}]

\* ticks counts the calls of the sprite's callback made while the callback
\* was a function of an animation (before), and endedBy keeps the callback
\* that such a call installed in its place (after) when that is no function
\* of an animation; replaced keeps the functions such calls have replaced
\* by another callback.
Tick(run, before, after) ==
    IF before \in TerminalCallbacks
    THEN run
    ELSE [run EXCEPT
             !.ticks = IF @ < MaxTicks THEN @ + 1 ELSE @,
             !.endedBy = IF after \in TerminalCallbacks THEN after ELSE @,
             !.replaced = IF after # before THEN @ \cup {before} ELSE @]

SetWorld(w) ==
    /\ sprites' = w.sprites
    /\ gTasks' = w.gTasks
    /\ sAnims' = w.sAnims
    /\ sAnimIdx' = w.sAnimIdx
    /\ sIsSummaryAnim' = w.sIsSummaryAnim

-----------------------------------------------------------------------------
(* The actions *)

AnimIds == 0..(NUM_ANIMS - 1)

\* void LaunchAnimationTaskForFrontSprite(struct Sprite *sprite,
\*                                        u8 frontAnimId)
LaunchAnimationTaskForFrontSprite(s, frontAnimId) ==
    /\ phase = "tasks"
    /\ FreeTasks(gTasks) # {}
    /\ LET taskId == CreateTask(gTasks)
       IN  /\ gTasks' = [gTasks EXCEPT ![taskId] =
                  [IdleTask EXCEPT
                      !.isActive = TRUE,
                      !.tPtrHi = S16(SpriteAddr(s) \div 65536),
                      !.tPtrLo = S16(SpriteAddr(s)),
                      !.tAnimId = frontAnimId]]
           /\ hist' = [hist EXCEPT
                  !.launches = @ + 1,
                  !.run[s] = NewRun("task", frontAnimId, sprites[s].data,
                                    taskId)]
    /\ UNCHANGED <<sprites, sAnims, sAnimIdx, sIsSummaryAnim, phase>>

\* StartMonSummaryAnimation that clears the registers from data[2] on, as
\* the hosting task does.
StartMonSummaryAnimation_Clears(s, frontAnimId) ==
    /\ phase = "tasks"
    /\ sIsSummaryAnim' = TRUE
    /\ sprites' = [sprites EXCEPT
           ![s].callback = sMonAnimFunctions[frontAnimId + 1],
           ![s].data = [i \in 0..7 |-> IF i = 1 THEN 1 ELSE 0]]
    /\ hist' = [hist EXCEPT
           !.launches = @ + 1,
           !.run[s] = NewRun("summary", frontAnimId, sprites[s].data, -1)]
    /\ UNCHANGED <<gTasks, sAnims, sAnimIdx, phase>>

\* void StartMonSummaryAnimation(struct Sprite *sprite, u8 frontAnimId)
StartMonSummaryAnimation(s, frontAnimId) ==
    /\ phase = "tasks"
    /\ sIsSummaryAnim' = TRUE
    /\ sprites' = [sprites EXCEPT
           ![s].callback = sMonAnimFunctions[frontAnimId + 1]]
    /\ hist' = [hist EXCEPT
           !.launches = @ + 1,
           !.run[s] = NewRun("summary", frontAnimId, sprites[s].data, -1)]
    /\ UNCHANGED <<gTasks, sAnims, sAnimIdx, phase>>

\* LaunchAnimationTaskForBackSprite that leaves the nature out of the index
\* and always takes the first animation of the set.
LaunchAnimationTaskForBackSprite_NoNature(s, backAnimSet, nature, g) ==
    /\ phase = "tasks"
    /\ FreeTasks(gTasks) # {}
    /\ LET taskId == CreateTask(gTasks)
           animId == U8(3 * backAnimSet)
       IN  /\ gTasks' = [gTasks EXCEPT ![taskId] =
                  [IdleTask EXCEPT
                      !.isActive = TRUE,
                      !.tPtrHi = S16(SpriteAddr(s) \div 65536),
                      !.tPtrLo = S16(SpriteAddr(s)),
                      !.tAnimId = BackAnimationIdAt(animId, g)]]
           /\ hist' = [hist EXCEPT
                  !.launches = @ + 1,
                  !.run[s] = NewRun("task", BackAnimationIdAt(animId, g),
                                    sprites[s].data, taskId)]
    /\ UNCHANGED <<sprites, sAnims, sAnimIdx, sIsSummaryAnim, phase>>

\* void LaunchAnimationTaskForBackSprite(struct Sprite *sprite,
\*                                       u8 backAnimSet); nature is the value
\* of GetNature for the mon of the battler in data[0], g the byte found if
\* animId lies beyond sBackAnimationIds.
LaunchAnimationTaskForBackSprite(s, backAnimSet, nature, g) ==
    /\ phase = "tasks"
    /\ FreeTasks(gTasks) # {}
    /\ LET taskId == CreateTask(gTasks)
           animId == U8((3 * backAnimSet)
                        + sBackAnimNatureModTable[nature + 1])
       IN  /\ gTasks' = [gTasks EXCEPT ![taskId] =
                  [IdleTask EXCEPT
                      !.isActive = TRUE,
                      !.tPtrHi = S16(SpriteAddr(s) \div 65536),
                      !.tPtrLo = S16(SpriteAddr(s)),
                      !.tAnimId = BackAnimationIdAt(animId, g)]]
           /\ hist' = [hist EXCEPT
                  !.launches = @ + 1,
                  !.run[s] = NewRun("task", BackAnimationIdAt(animId, g),
                                    sprites[s].data, taskId)]
    /\ UNCHANGED <<sprites, sAnims, sAnimIdx, sIsSummaryAnim, phase>>

\* SetSpriteCB_MonAnimDummy that clears the scratch registers too.
SetSpriteCB_MonAnimDummy_ClearsData(s) ==
    /\ phase = "tasks"
    /\ sprites[s].callback # "MonAnimDummySpriteCallback"
    /\ sprites' = [sprites EXCEPT
           ![s].callback = "MonAnimDummySpriteCallback",
           ![s].data = [i \in 0..7 |-> 0]]
    /\ UNCHANGED <<gTasks, sAnims, sAnimIdx, sIsSummaryAnim, phase, hist>>

\* SetSpriteCB_MonAnimDummy that puts the sprite back in its place.
SetSpriteCB_MonAnimDummy_Neutral(s) ==
    /\ phase = "tasks"
    /\ sprites[s].callback # "MonAnimDummySpriteCallback"
    /\ sprites' = [sprites EXCEPT
           ![s].callback = "MonAnimDummySpriteCallback",
           ![s].x2 = 0,
           ![s].y2 = 0]
    /\ UNCHANGED <<gTasks, sAnims, sAnimIdx, sIsSummaryAnim, phase, hist>>

\* void SetSpriteCB_MonAnimDummy(struct Sprite *sprite)
SetSpriteCB_MonAnimDummy(s) ==
    /\ phase = "tasks"
    /\ sprites[s].callback # "MonAnimDummySpriteCallback"
    /\ sprites' = [sprites EXCEPT
           ![s].callback = "MonAnimDummySpriteCallback"]
    /\ UNCHANGED <<gTasks, sAnims, sAnimIdx, sIsSummaryAnim, phase, hist>>

\* sprite.c: the frame animation of the sprite reaches its end.  Only
\* WaitAnimEnd reads animEnded, so the end is taken while it waits.
SpriteAnimEnds(s) ==
    /\ phase = "tasks"
    /\ sprites[s].callback = "WaitAnimEnd"
    /\ ~sprites[s].animEnded
    /\ sprites' = [sprites EXCEPT ![s].animEnded = TRUE]
    /\ UNCHANGED <<gTasks, sAnims, sAnimIdx, sIsSummaryAnim, phase, hist>>

\* The first half of a frame: the tasks run; g is the word a task finds if
\* it reads sMonAnimFunctions beyond its last entry.
RunTasks(g) ==
    /\ phase = "tasks"
    /\ \E t \in TaskIds : gTasks[t].isActive
    /\ SetWorld(RunTasksFrom(World, 0, g))
    /\ phase' = "sprites"
    /\ UNCHANGED hist

\* The second half of a frame: the callbacks of the sprites run.  A call
\* through an address that is no function leaves the code of this file, and
\* the frames end there.
AnimateSprites(q) ==
    /\ phase = "sprites" \/ \A t \in TaskIds : ~gTasks[t].isActive
    /\ \A s \in SpriteIds : sprites[s].callback # "WildPointer"
    /\ \E s \in SpriteIds : hist.run[s].mode # "none"
    /\ \E w \in {AnimateSpritesFrom(World, 1, q)} :
           /\ SetWorld(w)
           /\ hist' = [hist EXCEPT
                  !.run = [s \in SpriteIds |->
                              Tick(hist.run[s], sprites[s].callback,
                                   w.sprites[s].callback)]]
    /\ phase' = "tasks"

-----------------------------------------------------------------------------
(* One sprite and the whole catalogue: a launch of any animation by any of
   the three entry points, then the frames. *)

ZeroAnimData ==
    [rotation |-> 0, delay |-> 0, runs |-> 0, speed |-> 0, data |-> 0]

Init ==
    /\ \E h \in HostData :
           sprites = [s \in SpriteIds |->
                         IdleSprite(IF s = 1 THEN h ELSE [i \in 0..7 |-> 0])]
    /\ gTasks = [t \in TaskIds |-> IdleTask]
    /\ sAnims = [i \in 0..(MAX_BATTLERS_COUNT - 1) |-> ZeroAnimData]
    /\ sAnimIdx = 0
    /\ sIsSummaryAnim = FALSE
    /\ phase = "tasks"
    /\ hist = [launches |-> 0, run |-> [s \in SpriteIds |-> NoRun],
               claims |-> <<>>, link |-> 0]

AllZero(s) == \A i \in 0..7 : sprites[s].data[i] = 0

Next ==
    \/ \E a \in AnimIds :
           hist.launches = 0 /\ LaunchAnimationTaskForFrontSprite(1, a)
    \/ \E b \in 0..(NUM_BACK_ANIMS - 1), n \in 0..(NUM_NATURES - 1) :
           hist.launches = 0 /\ LaunchAnimationTaskForBackSprite(1, b, n, 0)
    \/ \E a \in AnimIds :
           hist.launches = 0 /\ AllZero(1) /\ StartMonSummaryAnimation(1, a)
    \/ hist.launches > 0 /\ SetSpriteCB_MonAnimDummy(1)
    \/ SpriteAnimEnds(1)
    \/ \E g \in OutOfBoundsFunctions : RunTasks(g)
    \/ \E q \in DivByZeroQuotients : AnimateSprites(q)

Spec == Init /\ [][Next]_vars

-----------------------------------------------------------------------------
(* Properties of the launches of one sprite *)

\* The catalogue function of the animation launched on sprite s.
AnimOf(s) == sMonAnimFunctions[hist.run[s].animId + 1]

Identity == [xScale |-> 256, yScale |-> 256, rotation |-> 0]

\* C1 (termination): an animation launched through the hosting task never
\* gets MaxTicks calls of its functions, for every entry of
\* sMonAnimFunctions, and the callback its last function installs in its
\* place is WaitAnimEnd: no variant loops forever.
C1_Termination ==
    \A s \in SpriteIds :
        hist.run[s].mode = "task" =>
            /\ hist.run[s].ticks < MaxTicks
            /\ hist.run[s].endedBy \in {"none", "WaitAnimEnd"}
            /\ (/\ hist.run[s].ticks > 0
                /\ sprites[s].callback \in TerminalCallbacks
                /\ sprites[s].callback # "MonAnimDummySpriteCallback"
                => hist.run[s].endedBy = "WaitAnimEnd")

\* The longest variant, Anim_BounceRotateToSides_Slow, has reached
\* WaitAnimEnd after 168 calls.
C1_Witness ==
    \E s \in SpriteIds :
        /\ hist.run[s].mode = "task"
        /\ AnimOf(s) = "Anim_BounceRotateToSides_Slow"
        /\ hist.run[s].endedBy = "WaitAnimEnd"
        /\ sprites[s].callback = "WaitAnimEnd"
        /\ hist.run[s].ticks = 168

\* The catalogue functions that step through a table of legs (the tables
\* sZigzagData, sVerticalShakeData, sBounceRotateToSidesData,
\* sYellowFlashData, sTriangleDownData and sShakeYellowFlashData).
TableDriven ==
    {"Anim_ZigzagFast", "Anim_ZigzagSlow", "Anim_VerticalShakeTwice",
     "Anim_VerticalShakeTwice_Slow", "Anim_BounceRotateToSides",
     "Anim_BounceRotateToSides_Small", "Anim_BounceRotateToSides_Slow",
     "Anim_BounceRotateToSides_SmallSlow", "Anim_FlashYellow",
     "Anim_VerticalShakeLowTwice", "Anim_VerticalShakeLowTwice_Slow",
     "Anim_VerticalShakeLowTwice_Fast", "Anim_TriangleDown_Slow",
     "Anim_TriangleDown", "Anim_TriangleDown_Fast",
     "Anim_ShakeFlashYellow_Fast", "Anim_ShakeFlashYellow",
     "Anim_ShakeFlashYellow_Slow"}

\* C2 (neutral reset): for every variant that is not table driven, launched
\* through the hosting task, once its function has installed WaitAnimEnd the
\* sprite's x2 and y2 are 0 and the last affine data set is 256, 256, 0.
C2_NeutralReset ==
    \A s \in SpriteIds :
        /\ hist.run[s].mode = "task"
        /\ AnimOf(s) \notin TableDriven
        /\ hist.run[s].endedBy = "WaitAnimEnd"
        => /\ sprites[s].x2 = 0
           /\ sprites[s].y2 = 0
           /\ sprites[s].matrix = Identity

\* The sprite of an active task and the steps of the frame loop.
TaskSprite(t) == ANIM_SPRITE(gTasks, t)

RunTasksStep == phase = "tasks" /\ phase' = "sprites"

\* The task t takes its first step.
FirstStep(t) ==
    gTasks[t].isActive /\ gTasks[t].tState = 0 /\ RunTasksStep

\* The task t takes a step in which it finds SpriteCallbackDummy installed.
FindsDummy(t) ==
    /\ gTasks[t].isActive
    /\ gTasks[t].tState # 0
    /\ sprites[TaskSprite(t)].callback = "SpriteCallbackDummy"
    /\ RunTasksStep

\* C5 as claimed (completion detection): in the step in which the hosting
\* task finds SpriteCallbackDummy installed, it removes itself and data[0]
\* and data[1] of the sprite get the values they had at the launch.
C5_RestoresRegisters0And1 ==
    [][\A t \in TaskIds :
          FindsDummy(t) =>
              /\ ~gTasks'[t].isActive
              /\ sprites'[TaskSprite(t)].data[0]
                     = hist.run[TaskSprite(t)].host[0]
              /\ sprites'[TaskSprite(t)].data[1]
                     = hist.run[TaskSprite(t)].host[1]]_vars

\* C5 as amended: in the step in which the hosting task finds
\* SpriteCallbackDummy installed, it removes itself, data[0] and data[2] of
\* the sprite get the values they had at the launch (battler and species)
\* and data[1] (sDontFlip) becomes 0.
C5_RestoresRegisters0And2 ==
    [][\A t \in TaskIds :
          FindsDummy(t) =>
              /\ ~gTasks'[t].isActive
              /\ sprites'[TaskSprite(t)].data[0]
                     = hist.run[TaskSprite(t)].host[0]
              /\ sprites'[TaskSprite(t)].data[2]
                     = hist.run[TaskSprite(t)].host[2]
              /\ sprites'[TaskSprite(t)].data[1] = 0]_vars

\* A task launched on a sprite with the registers 3, 1, 277 has completed:
\* the registers 0 and 2 are back and register 1 is 0.
C5_Witness ==
    \E s \in SpriteIds :
        /\ hist.run[s].mode = "task"
        /\ hist.run[s].host[0] = 3
        /\ hist.run[s].host[1] = 1
        /\ hist.run[s].host[2] = 277
        /\ hist.run[s].endedBy = "WaitAnimEnd"
        /\ sprites[s].callback = "SpriteCallbackDummy"
        /\ ~gTasks[hist.run[s].task].isActive
        /\ sprites[s].data[0] = 3
        /\ sprites[s].data[1] = 0
        /\ sprites[s].data[2] = 277

\* C6 (completion only through the terminal callback): an active task is
\* removed in a step exactly if that step is a step of the tasks at whose
\* comparison the sprite's callback is SpriteCallbackDummy; the callback
\* was then SpriteCallbackDummy before the step too, so no task is removed
\* while the callback is a function of an animation or WaitAnimEnd.
C6_DestroyedOnlyAtDummy ==
    [][\A t \in TaskIds :
          gTasks[t].isActive =>
              /\ ~gTasks'[t].isActive
                     <=> (/\ RunTasksStep
                          /\ sprites'[TaskSprite(t)].callback
                                 = "SpriteCallbackDummy")
              /\ ~gTasks'[t].isActive
                     => /\ gTasks[t].tState # 0
                        /\ sprites[TaskSprite(t)].callback
                               = "SpriteCallbackDummy"
              /\ FindsDummy(t) => ~gTasks'[t].isActive]_vars

\* The animation has ended, SpriteCallbackDummy is installed and the task
\* is still there: its next step removes it.
C6_Witness ==
    \E t \in TaskIds :
        /\ gTasks[t].isActive
        /\ gTasks[t].tState = 1
        /\ phase = "tasks"
        /\ sprites[TaskSprite(t)].callback = "SpriteCallbackDummy"
        /\ hist.run[TaskSprite(t)].endedBy = "WaitAnimEnd"

\* C7 as claimed (front launch register handling): the first step of the
\* hosting task makes data[2..7] zero, leaves data[0] and data[1] as the
\* host stored them and installs the function of the animation id.
C7_PreservesRegisters0And1 ==
    [][\A t \in TaskIds :
          FirstStep(t) =>
              /\ \A i \in 2..7 : sprites'[TaskSprite(t)].data[i] = 0
              /\ sprites'[TaskSprite(t)].data[0]
                     = sprites[TaskSprite(t)].data[0]
              /\ sprites'[TaskSprite(t)].data[1]
                     = sprites[TaskSprite(t)].data[1]
              /\ sprites'[TaskSprite(t)].callback
                     = sMonAnimFunctions[gTasks[t].tAnimId + 1]]_vars

\* C7 as amended: the first step of the hosting task keeps data[0] and
\* data[2] of the sprite in the task (tBattlerId, tSpeciesId), makes data[0]
\* and data[2..7] zero, sets data[1] (sDontFlip) to TRUE and installs the
\* function of the animation id.
C7_SavesRegisters0And2 ==
    [][\A t \in TaskIds :
          FirstStep(t) =>
              /\ \A i \in 2..7 : sprites'[TaskSprite(t)].data[i] = 0
              /\ sprites'[TaskSprite(t)].data[0] = 0
              /\ sprites'[TaskSprite(t)].data[1] = 1
              /\ gTasks'[t].tBattlerId = sprites[TaskSprite(t)].data[0]
              /\ gTasks'[t].tSpeciesId = sprites[TaskSprite(t)].data[2]
              /\ gTasks'[t].isActive
              /\ gTasks'[t].tState = 1
              /\ sprites'[TaskSprite(t)].callback
                     = sMonAnimFunctions[gTasks[t].tAnimId + 1]]_vars

\* The first step of a task launched on a sprite with the registers
\* 3, 1, 277, 5, ... has been taken.
C7_Witness ==
    \E t \in TaskIds :
        /\ gTasks[t].isActive
        /\ gTasks[t].tState = 1
        /\ gTasks[t].tBattlerId = 3
        /\ gTasks[t].tSpeciesId = 277
        /\ hist.run[TaskSprite(t)].host[7] = 5
        /\ hist.run[TaskSprite(t)].ticks = 0
        /\ phase = "sprites"
        /\ sprites[TaskSprite(t)].data = [i \in 0..7 |-> IF i = 1 THEN 1 ELSE 0]
        /\ sprites[TaskSprite(t)].callback
               = sMonAnimFunctions[gTasks[t].tAnimId + 1]

\* The sprite s runs (or has run) the catalogue function f, launched
\* through the hosting task, and the host has not taken the callback away.
TaskRunOf(s, f) ==
    /\ hist.run[s].mode = "task"
    /\ AnimOf(s) = f
    /\ hist.run[s].ticks > 0
    /\ sprites[s].callback # "MonAnimDummySpriteCallback"

\* C9 (bounded slide): Anim_HorizontalSlide launched through the task (so
\* not mirrored) from x2 = 0: after the call of tick t, x2 is
\* Sin((t * 384 / 40) mod 256, 6) for t in 0..40 with HorizontalSlide still
\* installed, and at tick 41 x2 is 0 and WaitAnimEnd is installed, after
\* which x2 stays 0.
C9_HorizontalSlide ==
    \A s \in SpriteIds :
        TaskRunOf(s, "Anim_HorizontalSlide") =>
            LET tick == hist.run[s].ticks - 1
            IN  IF tick <= 40
                THEN /\ sprites[s].x2 = Sin(((tick * 384) \div 40) % 256, 6)
                     /\ sprites[s].callback = "HorizontalSlide"
                     /\ hist.run[s].endedBy = "none"
                ELSE /\ tick = 41
                     /\ sprites[s].x2 = 0
                     /\ hist.run[s].endedBy = "WaitAnimEnd"

\* The slide has reached tick 41: WaitAnimEnd is installed and x2 is 0.
C9_Witness ==
    \E s \in SpriteIds :
        /\ TaskRunOf(s, "Anim_HorizontalSlide")
        /\ hist.run[s].ticks = 42
        /\ sprites[s].callback = "WaitAnimEnd"
        /\ sprites[s].x2 = 0

\* The rotation Twist hands to the affine data at the i-th frame of a
\* replay, for a sprite that is not mirrored.
TwistCurve(i) == U16(Sin((16 * i) % 256, 4096))

\* C10 (twist twice): Anim_Twist_Twice launched through the task writes the
\* curve at the ticks 0..64, finds the bound exceeded at tick 65 (it writes
\* the identity and stays installed), writes no affine data in the 10
\* ticks 66..75, writes the curve again at the ticks 76..139 and installs
\* WaitAnimEnd only at tick 140, when the bound is exceeded the second time.
C10_TwistTwice ==
    \A s \in SpriteIds :
        TaskRunOf(s, "Anim_Twist_Twice") =>
            LET tick == hist.run[s].ticks - 1
                sp == sprites[s]
            IN  /\ tick <= 140
                /\ (tick < 140 <=> sp.callback = "Twist")
                /\ (tick = 140 <=> hist.run[s].endedBy = "WaitAnimEnd")
                /\ tick \in 0..64 =>
                       sp.affineSet /\ sp.matrix.rotation = TwistCurve(tick)
                /\ tick = 65 => sp.affineSet /\ sp.matrix = Identity
                /\ tick \in 66..75 => ~sp.affineSet /\ sp.matrix = Identity
                /\ tick \in 76..139 =>
                       /\ sp.affineSet
                       /\ sp.matrix.rotation = TwistCurve(tick - 75)
                /\ tick = 140 => sp.matrix = Identity

\* The second replay is under way: tick 100, the rotation of the curve at
\* its frame 25.
C10_Witness ==
    \E s \in SpriteIds :
        /\ TaskRunOf(s, "Anim_Twist_Twice")
        /\ hist.run[s].ticks = 101
        /\ sprites[s].callback = "Twist"
        /\ sprites[s].affineSet
        /\ sprites[s].matrix.rotation = TwistCurve(25)
        /\ sprites[s].matrix.rotation # 0

-----------------------------------------------------------------------------
(* Two sprites and the same animation: sprite 2 is started the way the
   summary screen starts it, with all registers zero and so mirrored
   (sDontFlip FALSE), sprite 1 through the hosting task, whose first step
   makes the registers zero and sDontFlip TRUE.  The callbacks of the two
   sprites are then called in the same frames. *)

InitMirror ==
    /\ sprites = [s \in SpriteIds |-> IdleSprite([i \in 0..7 |-> 0])]
    /\ gTasks = [t \in TaskIds |-> IdleTask]
    /\ sAnims = [i \in 0..(MAX_BATTLERS_COUNT - 1) |-> ZeroAnimData]
    /\ sAnimIdx = 0
    /\ sIsSummaryAnim = FALSE
    /\ phase = "tasks"
    /\ hist = [launches |-> 0, run |-> [s \in SpriteIds |-> NoRun],
               claims |-> <<>>, link |-> 0]

NextMirror ==
    \/ \E a \in AnimIds :
           hist.launches = 0 /\ StartMonSummaryAnimation(2, a)
    \/ /\ hist.launches = 1
       /\ LaunchAnimationTaskForFrontSprite(1, hist.run[2].animId)
    \/ \E g \in OutOfBoundsFunctions : RunTasks(g)
    \/ \E q \in DivByZeroQuotients : hist.launches = 2 /\ AnimateSprites(q)

SpecMirror == InitMirror /\ [][NextMirror]_vars

\* C3 (mirror symmetry): whatever the animation, after every frame the x
\* offset of the mirrored sprite is the negation of the x offset of the
\* sprite that is not mirrored.
C3_MirrorSymmetry ==
    hist.launches = 2 => sprites[2].x2 = -sprites[1].x2

-----------------------------------------------------------------------------
(* Two sprites and animations that use the pool: a sprite gets a new
   animation when its last one is over and its task is gone, so at most two
   animations are in flight at any time. *)

MaxLaunches == 5

\* Anim_CircleCounterclockwise (23 calls) and Anim_Twist_Twice (141 calls):
\* both claim an entry of sAnims in their first call.
\* Sprite 1 plays the long one and sprite 2 the short one.
PoolAnimIds(s) ==
    IF s = 1
    THEN {AnimIdOf("Anim_Twist_Twice")}
    ELSE {AnimIdOf("Anim_CircleCounterclockwise")}

\* No animation is in flight on sprite s and no task is left for it.
Idle(s) ==
    /\ sprites[s].callback = "SpriteCallbackDummy"
    /\ \A t \in TaskIds : gTasks[t].isActive => TaskSprite(t) # s

NextPool ==
    \/ \E s \in 1..2 : \E a \in PoolAnimIds(s) :
           /\ hist.launches < MaxLaunches
           /\ Idle(s)
           /\ LaunchAnimationTaskForFrontSprite(s, a)
    \/ \E s \in 1..2 : SpriteAnimEnds(s)
    \/ \E g \in OutOfBoundsFunctions : RunTasks(g)
    \/ \E q \in DivByZeroQuotients : AnimateSprites(q)

SpecPool == InitMirror /\ [][NextPool]_vars

\* The animation of sprite s has claimed its entry of sAnims, in data[0],
\* and is not over.
Holds(s) ==
    /\ hist.run[s].mode = "task"
    /\ hist.run[s].ticks > 0
    /\ sprites[s].callback \notin TerminalCallbacks

\* C4 (pool single owner): with no more animations in flight than the pool
\* has entries, no entry of sAnims is held by two animations in flight.
C4_SingleOwner ==
    \A s1 \in SpriteIds, s2 \in SpriteIds :
        /\ Cardinality({s \in SpriteIds : Holds(s)}) <= MAX_BATTLERS_COUNT
        /\ s1 # s2
        /\ Holds(s1)
        /\ Holds(s2)
        => U8(sprites[s1].data[0]) # U8(sprites[s2].data[0])

-----------------------------------------------------------------------------
(* The pool alone: claims of entries of sAnims, and claimants that write
   to the entry they hold. *)

MaxClaims == 6

\* The values a claimant leaves in every field of its entry.
DirtyValues == 2..4

\* u8 id = AddNewAnim(), made by a function of an animation.
Claim ==
    /\ Len(hist.claims) < MaxClaims
    /\ \E c \in {AddNewAnim(Ctx(sprites[1], sAnims, sAnimIdx,
                                sIsSummaryAnim))} :
           /\ sAnims' = c.sAnims
           /\ sAnimIdx' = c.sAnimIdx
           /\ hist' = [hist EXCEPT !.claims =
                  Append(@, [id |-> c.sAnimIdx,
                             before |-> sAnims[c.sAnimIdx]])]
    /\ phase' = "claimed"
    /\ UNCHANGED <<sprites, gTasks, sIsSummaryAnim>>

\* sAnims[id].rotation = v, ... made by the holder of the entry last
\* claimed.
WriteAnimData(v) ==
    /\ hist.claims # <<>>
    /\ \E c \in {SetData(SetSpeed(SetRuns(SetDelay(SetRotation(
                    Ctx(sprites[1], sAnims, sAnimIdx, sIsSummaryAnim),
                    sAnimIdx, v), sAnimIdx, v), sAnimIdx, v), sAnimIdx, v),
                    sAnimIdx, v)} :
           sAnims' = c.sAnims
    /\ phase' = "written"
    /\ UNCHANGED <<sprites, gTasks, sAnimIdx, sIsSummaryAnim, hist>>

NextClaims ==
    \/ Claim
    \/ \E v \in DirtyValues : WriteAnimData(v)

SpecClaims == InitMirror /\ [][NextClaims]_vars

\* C8 (pool round robin): every claim returns an id in
\* 0..MAX_BATTLERS_COUNT-1, the claim made MAX_BATTLERS_COUNT claims after
\* another returns the same id, and right after a claim every field of the
\* entry claimed has its default, whatever was written to it before.
C8_RoundRobin ==
    /\ \A i \in 1..Len(hist.claims) :
           /\ hist.claims[i].id \in 0..(MAX_BATTLERS_COUNT - 1)
           /\ i > MAX_BATTLERS_COUNT =>
                  hist.claims[i].id
                      = hist.claims[i - MAX_BATTLERS_COUNT].id
           /\ i > 1 /\ i <= MAX_BATTLERS_COUNT =>
                  \A j \in 1..(i - 1) :
                      hist.claims[j].id # hist.claims[i].id
    /\ phase = "claimed" =>
           sAnims[hist.claims[Len(hist.claims)].id]
               = [rotation |-> 0, delay |-> 0, runs |-> 1, speed |-> 0,
                  data |-> 0]

\* The fifth claim has just returned the id of the first, whose entry the
\* first claimant had left with 3 in every field.
C8_Witness ==
    /\ phase = "claimed"
    /\ Len(hist.claims) = MAX_BATTLERS_COUNT + 1
    /\ hist.claims[MAX_BATTLERS_COUNT + 1].id = hist.claims[1].id
    /\ hist.claims[MAX_BATTLERS_COUNT + 1].before
           = [rotation |-> 3, delay |-> 3, runs |-> 3, speed |-> 3,
              data |-> 3]
    /\ sAnims[hist.claims[1].id].runs = 1
    /\ sAnims[hist.claims[1].id].rotation = 0

-----------------------------------------------------------------------------
(* The launches of the back sprite: the animation is looked up from the back
   animation set of the species and the nature of the mon. *)

\* The species a host launches for: SPECIES_NONE, SPECIES_BULBASAUR, one of
\* the species without an entry, SPECIES_TREECKO, SPECIES_LATIAS and
\* SPECIES_CHIMECHO.
SpeciesIds == {0, 1, 252, 277, 407, 411}

Natures == 0..(NUM_NATURES - 1)

BackAnimSets == 0..(NUM_BACK_ANIMS - 1)

\* Set ids that name no row of sBackAnimationIds: the first past the last
\* row, and BACK_ANIM_NONE less one as a u8.
UndefinedBackAnimSets == {NUM_BACK_ANIMS, U8(BACK_ANIM_NONE - 1)}

NextBack ==
    \/ \E b \in BackAnimSets, n \in Natures :
           hist.launches = 0 /\ LaunchAnimationTaskForBackSprite(1, b, n, 0)
    \/ \E species \in SpeciesIds, n \in Natures :
           /\ hist.launches = 0
           /\ LaunchAnimationTaskForBackSprite(
                  1, GetSpeciesBackAnimSet(species), n, 0)
    \/ \E b \in UndefinedBackAnimSets, n \in Natures,
          g \in OutOfBoundsBytes :
           hist.launches = 0 /\ LaunchAnimationTaskForBackSprite(1, b, n, g)
    \/ \E g \in OutOfBoundsFunctions : RunTasks(g)
    \/ \E q \in DivByZeroQuotients : AnimateSprites(q)

SpecBack == InitMirror /\ [][NextBack]_vars

\* The task a launch creates in this step.
Launched == CreateTask(gTasks)

\* C11 (resolver): a back launch with any of the 25 set ids b and any nature
\* n gives the task the entry 3 * b + m of sBackAnimationIds, m in 0..2 the
\* nature's entry of sBackAnimNatureModTable: the id depends on b and m
\* alone, no byte beyond the table is read, and the id is an index of
\* sMonAnimFunctions.
C11_BackResolver ==
    [][hist.launches = 0 =>
          \A b \in BackAnimSets, n \in Natures, g \in OutOfBoundsBytes :
              LaunchAnimationTaskForBackSprite(1, b, n, g) =>
                  /\ sBackAnimNatureModTable[n + 1] \in 0..2
                  /\ gTasks'[Launched].tAnimId
                         = sBackAnimationIds[
                               (3 * b) + sBackAnimNatureModTable[n + 1] + 1]
                  /\ gTasks'[Launched].tAnimId \in AnimIds]_vars

\* The last entry of the table, the third animation of the set 24, has been
\* looked up and its function runs.
C11_Witness ==
    /\ hist.run[1].mode = "task"
    /\ hist.run[1].animId = sBackAnimationIds[3 * NUM_BACK_ANIMS]
    /\ gTasks[hist.run[1].task].isActive
    /\ sprites[1].callback = "Anim_ShakeGlowBlue_Slow"
    /\ hist.run[1].ticks > 0

\* C12 (nature resolution): a back launch with the set of the horizontal
\* vibration (row 0) gives the task ANIM_H_VIBRATE_FASTEST for a nature
\* whose modifier is 0 and ANIM_H_VIBRATE for a nature whose modifier is 2.
C12_HorizontalVibrateByNature ==
    [][hist.launches = 0 =>
          \A n \in Natures :
              LaunchAnimationTaskForBackSprite(1, 0, n, 0) =>
                  /\ sBackAnimNatureModTable[n + 1] = 0
                         => gTasks'[Launched].tAnimId
                                = AnimIdOf("Anim_HorizontalVibrate_Fastest")
                  /\ sBackAnimNatureModTable[n + 1] = 2
                         => gTasks'[Launched].tAnimId
                                = AnimIdOf("Anim_HorizontalVibrate")]_vars

\* The launch for a nature of modifier 2 has installed
\* Anim_HorizontalVibrate, which has displaced the sprite.
C12_Witness ==
    /\ hist.run[1].mode = "task"
    /\ hist.run[1].animId = AnimIdOf("Anim_HorizontalVibrate")
    /\ sprites[1].callback = "Anim_HorizontalVibrate"
    /\ sprites[1].x2 # 0

\* C13 (undefined set): a back launch with a set id that names no row of
\* sBackAnimationIds reads no byte beyond the table: the index it computes
\* is one of the table, the id it gives the task does not depend on what
\* lies behind the table, and the id is an index of sMonAnimFunctions.
C13_UndefinedSetStaysInTable ==
    [][hist.launches = 0 =>
          \A b \in UndefinedBackAnimSets, n \in Natures,
             g \in OutOfBoundsBytes :
              LaunchAnimationTaskForBackSprite(1, b, n, g) =>
                  /\ U8((3 * b) + sBackAnimNatureModTable[n + 1])
                         < Len(sBackAnimationIds)
                  /\ gTasks'[Launched].tAnimId = BackAnimationIdAt(
                         U8((3 * b) + sBackAnimNatureModTable[n + 1]), 0)
                  /\ gTasks'[Launched].tAnimId \in AnimIds]_vars

-----------------------------------------------------------------------------
(* The launches of the front sprite with an id that is no index of
   sMonAnimFunctions: u8 frontAnimId can hold NUM_ANIMS to 255. *)

UndefinedAnimIds == {NUM_ANIMS, 255}

NextFront ==
    \/ \E a \in UndefinedAnimIds :
           hist.launches = 0 /\ LaunchAnimationTaskForFrontSprite(1, a)
    \/ \E g \in OutOfBoundsFunctions : RunTasks(g)
    \/ \E q \in DivByZeroQuotients : AnimateSprites(q)

SpecFront == InitMirror /\ [][NextFront]_vars

\* C14 (validated id): a sprite launched through the hosting task with an
\* id that is no index of sMonAnimFunctions stays static: the task reads no
\* entry for it, so the callback stays SpriteCallbackDummy and x2 and y2
\* stay 0.
C14_UndefinedIdLeavesSpriteStatic ==
    \A s \in SpriteIds :
        /\ hist.run[s].mode = "task"
        /\ hist.run[s].animId \notin AnimIds
        => /\ sprites[s].callback = "SpriteCallbackDummy"
           /\ sprites[s].x2 = 0
           /\ sprites[s].y2 = 0

-----------------------------------------------------------------------------
(* The affine mode an animation leaves behind *)

\* The animation launched on sprite s has started the affine animation and
\* its last function has installed WaitAnimEnd.
AffineRunEnded(s) ==
    /\ hist.run[s].endedBy = "WaitAnimEnd"
    /\ sprites[s].affineStarts > 0

\* C15 as claimed (affine lifecycle): at the end of an animation that was
\* launched through the hosting task the sprite is out of affine mode, and
\* at the end of an animation of the summary screen the sprite is still in
\* an affine mode, with the horizontal flip set in it.
C15_AffineOffAfterTask ==
    \A s \in SpriteIds :
        AffineRunEnded(s) =>
            /\ hist.run[s].mode = "task"
                   => sprites[s].affineMode = "ST_OAM_AFFINE_OFF"
            /\ hist.run[s].mode = "summary"
                   => /\ sprites[s].affineMode # "ST_OAM_AFFINE_OFF"
                      /\ sprites[s].hFlip = (sprites[s].data[1] = 0)

\* C15 as amended: at the end of an animation that was launched through
\* the hosting task the sprite is left in the affine mode
\* ST_OAM_AFFINE_NORMAL, its matrix kept and no flip set; at the end of an
\* animation of the summary screen the sprite is switched out of affine
\* mode (ST_OAM_AFFINE_OFF), its matrix is freed, and hFlip and the flip bit
\* of matrixNum are set exactly if sDontFlip is 0.
C15_AffineOffAfterSummary ==
    \A s \in SpriteIds :
        AffineRunEnded(s) =>
            /\ hist.run[s].mode = "task"
                   => /\ sprites[s].affineMode = "ST_OAM_AFFINE_NORMAL"
                      /\ ~sprites[s].matrixFreed
                      /\ ~sprites[s].hFlip
                      /\ ~sprites[s].matrixNumFlipBit
            /\ hist.run[s].mode = "summary"
                   => /\ sprites[s].affineMode = "ST_OAM_AFFINE_OFF"
                      /\ sprites[s].matrixFreed
                      /\ sprites[s].hFlip = (sprites[s].data[1] = 0)
                      /\ sprites[s].matrixNumFlipBit = sprites[s].hFlip

\* Anim_GrowVibrate has ended on a sprite of the summary screen: the sprite
\* is out of affine mode and flipped.
C15_Witness ==
    \E s \in SpriteIds :
        /\ AffineRunEnded(s)
        /\ AnimOf(s) = "Anim_GrowVibrate"
        /\ hist.run[s].mode = "summary"
        /\ sprites[s].callback = "WaitAnimEnd"
        /\ sprites[s].affineMode = "ST_OAM_AFFINE_OFF"
        /\ sprites[s].hFlip

-----------------------------------------------------------------------------
(* A second launch on a sprite whose animation still runs *)

\* The animations of the first and of the second launch: one that slides,
\* one that takes an entry of sAnims, one that scales the sprite.
FirstAnimIds ==
    {AnimIdOf("Anim_HorizontalSlide"), AnimIdOf("Anim_Twist"),
     AnimIdOf("Anim_GrowVibrate")}

SecondAnimIds ==
    {AnimIdOf("Anim_VerticalSlide"), AnimIdOf("Anim_Twist"),
     AnimIdOf("Anim_VerticalStretch")}

NextDouble ==
    \/ \E a \in FirstAnimIds :
           hist.launches = 0 /\ LaunchAnimationTaskForFrontSprite(1, a)
    \/ \E a \in SecondAnimIds :
           /\ hist.launches = 1
           /\ sprites[1].callback \notin TerminalCallbacks
           /\ LaunchAnimationTaskForFrontSprite(1, a)
    \/ SpriteAnimEnds(1)
    \/ \E g \in OutOfBoundsFunctions : RunTasks(g)
    \/ \E q \in DivByZeroQuotients : AnimateSprites(q)

SpecDouble == InitMirror /\ [][NextDouble]_vars

\* C16 (double launch): after a second launch on a sprite whose callback
\* was a function of an animation, once the new task has taken its first
\* step and before the callback is called, the callback is the function of
\* the new animation and data[2] to data[7] are 0; the new animation never
\* gets MaxTicks calls and the callback its last function installs is
\* WaitAnimEnd.
C16_DoubleLaunch ==
    \A s \in SpriteIds :
        hist.launches = 2 /\ hist.run[s].mode = "task" =>
            /\ (/\ gTasks[hist.run[s].task].isActive
                /\ gTasks[hist.run[s].task].tState # 0
                /\ hist.run[s].ticks = 0)
                   => /\ sprites[s].callback = AnimOf(s)
                      /\ \A i \in 2..7 : sprites[s].data[i] = 0
            /\ hist.run[s].ticks < MaxTicks
            /\ hist.run[s].endedBy \in {"none", "WaitAnimEnd"}
            /\ (/\ hist.run[s].ticks > 0
                /\ sprites[s].callback \in TerminalCallbacks
                => hist.run[s].endedBy = "WaitAnimEnd")

\* Anim_VerticalStretch, launched while Anim_GrowVibrate had scaled the
\* sprite and left 7 in data[2], has reached WaitAnimEnd; both tasks are
\* still there.
C16_Witness ==
    /\ hist.launches = 2
    /\ AnimOf(1) = "Anim_VerticalStretch"
    /\ hist.run[1].host[2] = 7
    /\ hist.run[1].endedBy = "WaitAnimEnd"
    /\ sprites[1].callback = "WaitAnimEnd"
    /\ \A t \in 0..1 : gTasks[t].isActive

-----------------------------------------------------------------------------
(* The host installs MonAnimDummySpriteCallback *)

\* The step in which sprite s gets MonAnimDummySpriteCallback; only
\* SetSpriteCB_MonAnimDummy installs it.
GetsMonAnimDummy(s) ==
    /\ sprites[s].callback # "MonAnimDummySpriteCallback"
    /\ sprites'[s].callback = "MonAnimDummySpriteCallback"

\* No task is about to take its first step, which installs a callback.
NoTaskStarts == \A t \in TaskIds : gTasks[t].isActive => gTasks[t].tState # 0

\* What of a sprite a callback can write, apart from the mark of the last
\* call.
Written(sprite) == [sprite EXCEPT !.affineSet = FALSE]

\* C17 (cancellation): the step that installs MonAnimDummySpriteCallback on
\* a sprite whose callback was a function of an animation changes that
\* callback and nothing else: x2, y2, data[0..7], the affine data and every
\* other field, the tasks and sAnims are as the animation left them; and
\* while MonAnimDummySpriteCallback is installed and no task starts, the
\* frames that follow do not change the sprite either.
C17_Cancellation ==
    [][\A s \in SpriteIds :
          /\ (GetsMonAnimDummy(s)
               /\ sprites[s].callback \notin TerminalCallbacks)
                 => /\ sprites' = [sprites EXCEPT ![s].callback =
                                       "MonAnimDummySpriteCallback"]
                    /\ UNCHANGED <<gTasks, sAnims, sAnimIdx,
                                   sIsSummaryAnim>>
          /\ (sprites[s].callback = "MonAnimDummySpriteCallback"
               /\ NoTaskStarts)
                 => Written(sprites'[s]) = Written(sprites[s])]_vars

\* Anim_GrowVibrate was interrupted: MonAnimDummySpriteCallback is
\* installed, the scale of the sprite and its counter data[2] are as the
\* animation left them, and frames have passed since.
C17_Witness ==
    \E s \in SpriteIds :
        /\ sprites[s].callback = "MonAnimDummySpriteCallback"
        /\ AnimOf(s) = "Anim_GrowVibrate"
        /\ hist.run[s].endedBy = "none"
        /\ hist.run[s].ticks = 10
        /\ sprites[s].data[2] = 10
        /\ sprites[s].matrix # Identity
        /\ sprites[s].affineMode = "ST_OAM_AFFINE_DOUBLE"
        /\ ~sprites[s].affineSet
        /\ phase = "sprites"

\* C18 as claimed (reset entry point): the step that installs
\* MonAnimDummySpriteCallback on a sprite leaves x2 and y2 of the sprite 0.
C18_ResetZeroesOffsets ==
    [][\A s \in SpriteIds :
          GetsMonAnimDummy(s) =>
              /\ sprites'[s].x2 = 0
              /\ sprites'[s].y2 = 0]_vars

\* C18 as amended: the step that installs MonAnimDummySpriteCallback on a
\* sprite, whatever its callback was, leaves x2 and y2 of the sprite as
\* they were.
C18_ResetKeepsOffsets ==
    [][\A s \in SpriteIds :
          GetsMonAnimDummy(s) =>
              /\ sprites'[s].x2 = sprites[s].x2
              /\ sprites'[s].y2 = sprites[s].y2]_vars

\* MonAnimDummySpriteCallback was installed in the middle of
\* Anim_HorizontalSlide, after 5 calls: the sprite rests 4 pixels from its
\* place.
C18_Witness ==
    \E s \in SpriteIds :
        /\ sprites[s].callback = "MonAnimDummySpriteCallback"
        /\ AnimOf(s) = "Anim_HorizontalSlide"
        /\ hist.run[s].mode = "task"
        /\ hist.run[s].ticks = 5
        /\ sprites[s].x2 = 4
        /\ sprites[s].y2 = 0

-----------------------------------------------------------------------------
(* The frames go on: the loop of the host runs the tasks and the callbacks
   of the sprites again and again, and a frame animation reaches its end. *)

CancelAnimIds == {AnimIdOf("Anim_HorizontalSlide")}

NextCancel ==
    \/ \E a \in CancelAnimIds :
           hist.launches = 0 /\ LaunchAnimationTaskForFrontSprite(1, a)
    \/ hist.launches > 0 /\ SetSpriteCB_MonAnimDummy(1)
    \/ SpriteAnimEnds(1)
    \/ \E g \in OutOfBoundsFunctions : RunTasks(g)
    \/ \E q \in DivByZeroQuotients : AnimateSprites(q)

Frame ==
    \/ \E g \in OutOfBoundsFunctions : RunTasks(g)
    \/ \E q \in DivByZeroQuotients : AnimateSprites(q)

SpecCancel ==
    /\ InitMirror
    /\ [][NextCancel]_vars
    /\ WF_vars(Frame)
    /\ WF_vars(SpriteAnimEnds(1))

\* C19 (single terminal marker): a hosting task whose sprite has
\* MonAnimDummySpriteCallback installed finds the animation complete and
\* is removed in the end.
C19_CancelledTaskEnds ==
    \A t \in TaskIds :
        (gTasks[t].isActive
         /\ sprites[TaskSprite(t)].callback = "MonAnimDummySpriteCallback")
            ~> ~gTasks[t].isActive

-----------------------------------------------------------------------------
(* Two sprites, launched at any time one after the other: sprite 1 through
   the hosting task, sprite 2 through the task or from the summary screen.
   None of the animations takes an entry of sAnims. *)

PartitionAnimIds ==
    {AnimIdOf("Anim_HorizontalSlide"), AnimIdOf("Anim_GrowVibrate")}

OtherAnimIds == {AnimIdOf("Anim_VerticalSlide")}

NextPartition ==
    \/ \E a \in PartitionAnimIds :
           /\ hist.run[1].mode = "none"
           /\ LaunchAnimationTaskForFrontSprite(1, a)
    \/ \E b \in OtherAnimIds :
           /\ hist.run[2].mode = "none"
           /\ LaunchAnimationTaskForFrontSprite(2, b)
    \/ \E b \in OtherAnimIds :
           /\ hist.run[2].mode = "none"
           /\ StartMonSummaryAnimation(2, b)
    \/ \E s \in 1..2 : SpriteAnimEnds(s)
    \/ \E g \in OutOfBoundsFunctions : RunTasks(g)
    \/ \E q \in DivByZeroQuotients : AnimateSprites(q)

SpecPartition == InitMirror /\ [][NextPartition]_vars

\* The sprite s as its animation finds it at its first call when no other
\* sprite is animated: the task has set data[1] and cleared the other
\* registers, the summary screen has left them.
SoloStart(s) ==
    Ctx([IdleSprite(hist.run[s].host) EXCEPT
            !.callback = AnimOf(s),
            !.data = IF hist.run[s].mode = "task"
                     THEN [i \in 0..7 |-> IF i = 1 THEN 1 ELSE 0]
                     ELSE @],
        [i \in 0..(MAX_BATTLERS_COUNT - 1) |-> ZeroAnimData], 0,
        hist.run[s].mode = "summary")

\* The context after k calls of the callback with no other sprite around.
RECURSIVE SoloRun(_, _)
SoloRun(c, k) == IF k = 0 THEN c ELSE SoloRun(RunCallback(c, 0), k - 1)

\* The offsets, the affine data and what the reset leaves in a sprite.
Shown(sprite) ==
    [x2 |-> sprite.x2, y2 |-> sprite.y2, matrix |-> sprite.matrix,
     affineMode |-> sprite.affineMode, hFlip |-> sprite.hFlip,
     matrixFreed |-> sprite.matrixFreed,
     matrixNumFlipBit |-> sprite.matrixNumFlipBit,
     centerToCornerVecX |-> sprite.centerToCornerVecX]

\* C20 (partition): after any number of calls of its functions, a sprite
\* whose animation takes no entry of sAnims has the offsets, the affine
\* data and the traces of the reset that the same number of calls leave
\* when no other sprite is launched or animated.
C20_Partition ==
    \A s \in SpriteIds :
        hist.run[s].mode # "none" =>
            Shown(sprites[s])
                = Shown(SoloRun(SoloStart(s), hist.run[s].ticks).sprite)

-----------------------------------------------------------------------------
(* The order of the functions of one animation *)

\* C21 as claimed (forward only): the callback of a sprite is never a
\* function that a call of the same animation has replaced by another one,
\* for every entry of sMonAnimFunctions.
C21_NeverInstalledAgain ==
    \A s \in SpriteIds :
        hist.run[s].mode # "none" =>
            sprites[s].callback \notin hist.run[s].replaced

\* C21 as amended: the callback of a sprite is a function that a call of
\* the same animation has replaced only in
\* Anim_HorizontalJumpsVerticalStretch_Twice, whose last function
\* HorizontalJumpsVerticalStretch_2 installs the first one,
\* HorizontalJumpsVerticalStretch_0, again for the repeat; in every other
\* entry, the other repeated ones included, no function comes back.
C21_InstalledAgainOnlyForRepeat ==
    \A s \in SpriteIds :
        /\ hist.run[s].mode # "none"
        /\ sprites[s].callback \in hist.run[s].replaced
        => /\ AnimOf(s) = "Anim_HorizontalJumpsVerticalStretch_Twice"
           /\ sprites[s].callback \in
                  {"HorizontalJumpsVerticalStretch_0",
                   "HorizontalJumpsVerticalStretch_1",
                   "HorizontalJumpsVerticalStretch_2"}

\* Anim_HorizontalJumpsVerticalStretch_Twice is in its second run.
C21_Witness ==
    \E s \in SpriteIds :
        /\ hist.run[s].mode = "task"
        /\ AnimOf(s) = "Anim_HorizontalJumpsVerticalStretch_Twice"
        /\ sprites[s].callback = "HorizontalJumpsVerticalStretch_1"
        /\ "HorizontalJumpsVerticalStretch_2" \in hist.run[s].replaced
        /\ sAnims[sprites[s].data[0]].runs = 1

-----------------------------------------------------------------------------
(* The back launch and the front launch *)

\* C22 (back launch as front launch): a step is the back launch on a sprite
\* with the set b and a nature of modifier m exactly if it is the front
\* launch on that sprite with the entry 3 * b + m of sBackAnimationIds: both
\* leave the same task with the same sprite and id, hence the same function
\* installed, the same registers and the same completion after it.
C22_BackLaunchIsFrontLaunch ==
    [][hist.launches = 0 =>
          \A b \in 0..(NUM_BACK_ANIMS - 1), n \in 0..(NUM_NATURES - 1) :
              LaunchAnimationTaskForBackSprite(1, b, n, 0)
                  <=> LaunchAnimationTaskForFrontSprite(
                          1, sBackAnimationIds[
                                 (3 * b) + sBackAnimNatureModTable[n + 1]
                                 + 1])]_vars

\* The animation of the set 24 for a nature of modifier 2, launched on the
\* sprite of battler 3 and species 277, has run and its task has handed the
\* two registers back.
C22_Witness ==
    /\ hist.run[1].mode = "task"
    /\ hist.run[1].animId = sBackAnimationIds[(3 * 24) + 2 + 1]
    /\ hist.run[1].host[0] = 3
    /\ hist.run[1].endedBy = "WaitAnimEnd"
    /\ sprites[1].callback = "SpriteCallbackDummy"
    /\ ~gTasks[hist.run[1].task].isActive
    /\ sprites[1].data[0] = 3
    /\ sprites[1].data[2] = 277

-----------------------------------------------------------------------------
(* The launch from the summary screen *)

\* The step that launches an animation on sprite s from the summary screen.
SummaryLaunch(s) ==
    hist.run[s].mode = "none" /\ hist'.run[s].mode = "summary"

\* C23 (summary launch): the step of a summary launch installs the entry of
\* sMonAnimFunctions for the id as the callback of the sprite, sets
\* sIsSummaryAnim, and changes nothing else: no task is created and
\* data[0..7] are as they were; and the calls of the callback that follow
\* (fewer than MaxTicks) end with WaitAnimEnd installed.
C23_SummaryLaunch ==
    /\ [][\A s \in SpriteIds :
             SummaryLaunch(s) =>
                 /\ sprites' = [sprites EXCEPT ![s].callback =
                        sMonAnimFunctions[hist'.run[s].animId + 1]]
                 /\ sIsSummaryAnim' = TRUE
                 /\ UNCHANGED <<gTasks, sAnims, sAnimIdx>>]_vars
    /\ [](\A s \in SpriteIds :
             hist.run[s].mode = "summary" =>
                 /\ \A t \in TaskIds : ~gTasks[t].isActive
                 /\ hist.run[s].ticks < MaxTicks
                 /\ hist.run[s].endedBy \in {"none", "WaitAnimEnd"}
                 /\ (/\ hist.run[s].ticks > 0
                     /\ sprites[s].callback \in TerminalCallbacks
                     /\ sprites[s].callback # "MonAnimDummySpriteCallback"
                     => hist.run[s].endedBy = "WaitAnimEnd"))

\* Anim_Spin, launched from the summary screen, has been driven to
\* WaitAnimEnd and on to SpriteCallbackDummy with no task around.
C23_Witness ==
    \E s \in SpriteIds :
        /\ hist.run[s].mode = "summary"
        /\ AnimOf(s) = "Anim_Spin"
        /\ hist.run[s].endedBy = "WaitAnimEnd"
        /\ sprites[s].callback = "SpriteCallbackDummy"
        /\ sIsSummaryAnim
        /\ \A t \in TaskIds : ~gTasks[t].isActive

-----------------------------------------------------------------------------
(* The animations that repeat: runs of their entry of sAnims *)

\* The functions that read runs, and the register each of them counts its
\* frames in.
RepeatFunctions ==
    {"Twist", "SwingConcave", "SwingConvex", "RotateToSides",
     "TumblingFrontFlip", "DeepVerticalSquishBounce",
     "HorizontalJumpsVerticalStretch_2"}

FrameCounter(f) ==
    CASE f = "RotateToSides" -> 7
      [] f = "TumblingFrontFlip" -> 5
      [] f = "DeepVerticalSquishBounce" -> 4
      [] OTHER -> 2

\* The step is a call of the callback of sprite s.
Called(s) == hist'.run[s].ticks = hist.run[s].ticks + 1

\* C24 (repeat N): in a call of one of the functions that repeat, runs of
\* the sprite's entry of sAnims is at least 1 and stays or goes down by
\* one; it goes down only from a value above 1, and then the frame counter
\* starts again and WaitAnimEnd is not installed; WaitAnimEnd is installed
\* only when runs is 1, so never while a repeat is left.
C24_RepeatPolicy ==
    [][\A s \in SpriteIds :
          Called(s) /\ sprites[s].callback \in RepeatFunctions =>
              LET f == sprites[s].callback
                  id == sprites[s].data[0]
                  before == sAnims[id].runs
                  after == sAnims'[id].runs
              IN  /\ before >= 1
                  /\ after >= 1
                  /\ after \in {before, before - 1}
                  /\ after = before - 1 =>
                         /\ before > 1
                         /\ sprites'[s].callback # "WaitAnimEnd"
                         /\ sprites'[s].data[FrameCounter(f)]
                                < sprites[s].data[FrameCounter(f)]
                  /\ sprites'[s].callback = "WaitAnimEnd" =>
                         before = 1 /\ after = 1
                  /\ before > 1 => sprites'[s].callback # "WaitAnimEnd"]_vars

\* Anim_SwingConcave_Fast, launched with runs 2, is in its second run:
\* runs is 1 and the function still installed.
C24_Witness ==
    \E s \in SpriteIds :
        /\ hist.run[s].mode = "task"
        /\ AnimOf(s) = "Anim_SwingConcave_Fast"
        /\ sprites[s].callback = "SwingConcave"
        /\ sAnims[sprites[s].data[0]].runs = 1
        /\ hist.run[s].ticks > 60
        /\ sprites[s].data[2] = 10

-----------------------------------------------------------------------------
(* The animations that walk a table of rows with a time *)

\* The callbacks that walk a table once installed, by table.
ZigzagCallbacks == {"Zigzag", "Anim_ZigzagSlow"}

YellowCallbacks ==
    {"Anim_FlashYellow", "Anim_ShakeFlashYellow_Fast",
     "Anim_ShakeFlashYellow", "Anim_ShakeFlashYellow_Slow"}

TableCallbacks == ZigzagCallbacks \cup {"TriangleDown"} \cup YellowCallbacks

\* The time of row `row` of the table of f, as f compares it with its
\* frame counter.
RowTime(f, sprite, row) ==
    CASE f \in ZigzagCallbacks -> At(sZigzagData, row)[3]
      [] f = "TriangleDown" ->
             CDiv(At(sTriangleDownData, row)[3], sprite.data[5])
      [] f = "Anim_FlashYellow" -> At(sYellowFlashData, row)[2]
      [] f = "Anim_ShakeFlashYellow_Fast" ->
             At(sShakeYellowFlashData[1], row)[2]
      [] f = "Anim_ShakeFlashYellow" -> At(sShakeYellowFlashData[2], row)[2]
      [] f = "Anim_ShakeFlashYellow_Slow" ->
             At(sShakeYellowFlashData[3], row)[2]

\* The row register and the frame counter of f.
RowRegister(f) == IF f \in YellowCallbacks THEN 6 ELSE 3

RowCounter(f) == IF f \in YellowCallbacks THEN 5 ELSE 2

\* The row and the count a call of f starts from: a call with data[2] of 0
\* starts the table again.
RowOf(f, sprite) ==
    IF sprite.data[2] = 0 THEN 0 ELSE sprite.data[RowRegister(f)]

CountOf(f, sprite) ==
    IF sprite.data[2] = 0 THEN 0 ELSE sprite.data[RowCounter(f)]

\* The call walks the table: Anim_ZigzagSlow steps Zigzag every other frame.
Walks(f, sprite) ==
    f = "Anim_ZigzagSlow" => sprite.data[2] = 0 \/ sprite.data[0] <= 0

\* The last row of a table: time 0 in sZigzagData and sTriangleDownData,
\* time -1 (as u8) in the tables of the yellow flashes.
LastRowTime(f) == IF f \in YellowCallbacks THEN U8(-1) ELSE 0

\* A call of f that walks its table goes to the next row exactly when the
\* frame counter is at the time of the row.
NextRowWhenTimeIsUp(s) ==
    LET f == sprites[s].callback
        row == RowOf(f, sprites[s])
        time == RowTime(f, sprites[s], row)
    IN  IF f \in YellowCallbacks /\ time = LastRowTime(f)
        THEN sprites'[s].data[RowRegister(f)] = row
        ELSE /\ time # LastRowTime(f)
             /\ sprites'[s].data[RowRegister(f)] =
                    IF CountOf(f, sprites[s]) = time THEN row + 1 ELSE row

TableCall(s) ==
    /\ Called(s)
    /\ sprites[s].callback \in TableCallbacks
    /\ Walks(sprites[s].callback, sprites[s])

\* C25 as claimed (table of rows): a call goes to the next row exactly when
\* the time of the row is up, and installs WaitAnimEnd exactly when the row
\* it has reached has time 0.
C25_EndsAtTimeZero ==
    [][\A s \in SpriteIds :
          TableCall(s) =>
              LET f == sprites[s].callback
                  reached == sprites'[s].data[RowRegister(f)]
              IN  /\ NextRowWhenTimeIsUp(s)
                  /\ sprites'[s].callback = "WaitAnimEnd"
                         <=> RowTime(f, sprites'[s], reached) = 0]_vars

\* C25 (table of rows): a call goes to the next row exactly when the time
\* of the row is up, and installs WaitAnimEnd exactly on the last row of
\* the table, whose time is 0 for zigzag and triangle down and -1 for the
\* yellow flashes; triangle down walks its table data[6] times and
\* installs WaitAnimEnd on the last row of the last walk only.
C25_EndsAtLastRow ==
    [][\A s \in SpriteIds :
          TableCall(s) =>
              LET f == sprites[s].callback
                  reached == sprites'[s].data[RowRegister(f)]
                  onLastRow ==
                      IF f \in YellowCallbacks
                      THEN RowTime(f, sprites[s], RowOf(f, sprites[s]))
                              = LastRowTime(f)
                      ELSE RowTime(f, sprites'[s], reached) = LastRowTime(f)
              IN  /\ NextRowWhenTimeIsUp(s)
                  /\ sprites'[s].callback = "WaitAnimEnd"
                         <=> /\ onLastRow
                             /\ f = "TriangleDown" => sprites'[s].data[6] = 0
                  /\ f = "TriangleDown" /\ onLastRow =>
                         sprites'[s].data[6] = sprites[s].data[6] - 1]_vars

\* Anim_FlashYellow has walked its table to the last row, of time -1, and
\* installed WaitAnimEnd.
C25_Witness ==
    \E s \in SpriteIds :
        /\ hist.run[s].mode = "task"
        /\ AnimOf(s) = "Anim_FlashYellow"
        /\ sprites[s].callback = "WaitAnimEnd"
        /\ sprites[s].data[6] = 13
        /\ At(sYellowFlashData, sprites[s].data[6])[2] = U8(-1)

\* Anim_TriangleDown_Fast is in its second walk of sTriangleDownData.
C25_WitnessSecondWalk ==
    \E s \in SpriteIds :
        /\ hist.run[s].mode = "task"
        /\ AnimOf(s) = "Anim_TriangleDown_Fast"
        /\ sprites[s].callback = "TriangleDown"
        /\ sprites[s].data[6] = 1
        /\ sprites[s].data[3] = 1

-----------------------------------------------------------------------------
(* The mirrored and the unmirrored sprite of SpecMirror: their matrices *)

\* C26 (affine mirroring): whatever the animation, after every frame the
\* x scale and the rotation last handed to SetAffineData for the mirrored
\* sprite are the negations, as s16 and as u16, of those handed over for
\* the sprite that is not mirrored, and the y scale is the same; the two
\* sprites have been handed values in the same frames.
C26_AffineMirroring ==
    hist.launches = 2 =>
        /\ sprites[2].affineSet = sprites[1].affineSet
        /\ sprites[2].affineSet =>
               /\ sprites[2].matrix.xScale = S16(-(sprites[1].matrix.xScale))
               /\ sprites[2].matrix.rotation
                      = U16(-(sprites[1].matrix.rotation))
               /\ sprites[2].matrix.yScale = sprites[1].matrix.yScale

\* Anim_HorizontalStretch, which calls SetAffineData itself, is under way on
\* both sprites with a stretched x scale.
C26_Witness ==
    /\ hist.launches = 2
    /\ hist.run[1].animId = AnimIdOf("Anim_HorizontalStretch")
    /\ hist.run[2].animId = AnimIdOf("Anim_HorizontalStretch")
    /\ sprites[1].affineSet /\ sprites[2].affineSet
    /\ sprites[1].matrix.xScale \in 200..250
    /\ sprites[2].matrix.xScale = -(sprites[1].matrix.xScale)

\* Anim_Twist, which goes through HandleSetAffineData, is under way on both
\* sprites with a rotation that is not 0.
C26_WitnessRotation ==
    /\ hist.launches = 2
    /\ hist.run[1].animId = AnimIdOf("Anim_Twist")
    /\ sprites[1].affineSet /\ sprites[2].affineSet
    /\ sprites[1].matrix.rotation \notin {0, 32768}
    /\ sprites[2].matrix.rotation = 65536 - sprites[1].matrix.rotation

-----------------------------------------------------------------------------
(* HandleStartAffineAnim in the course of an animation *)

\* The call of this step started the affine animation of sprite s.
AffineStarted(s) == sprites'[s].affineStarts > sprites[s].affineStarts

\* The sprite is mirrored: its sDontFlip is 0.
Mirrored(sprite) == sprite.data[1] = 0

\* C27 (affine start): an animation that hands values to SetAffineData has
\* started the affine animation of its sprite; it starts it in its first
\* call and in no later call, a repeat included; the start selects
\* ST_OAM_AFFINE_DOUBLE and affine animation 1 for a mirrored sprite, 0
\* otherwise, and under StartMonSummaryAnimation it initialises the affine
\* animation of the sprite.
C27_AffineStart ==
    /\ [][\A s \in SpriteIds :
             AffineStarted(s) =>
                 /\ hist.run[s].ticks = 0
                 /\ sprites[s].affineStarts = 0
                 /\ sprites'[s].affineMode = "ST_OAM_AFFINE_DOUBLE"
                 /\ sprites'[s].affineAnimNum
                        = IF Mirrored(sprites[s]) THEN 1 ELSE 0
                 /\ hist.run[s].mode = "summary" =>
                        sprites'[s].affineAnimInited]_vars
    /\ [](\A s \in SpriteIds :
             sprites[s].affineSet => sprites[s].affineStarts >= 1)

-----------------------------------------------------------------------------
(* Back launches by species: the sprite holds its species in data[2], as the
   battle code leaves it, and the launch takes the set of that species from
   GetSpeciesBackAnimSet.  Every species of sSpeciesToBackAnimSet is tried. *)

NUM_SPECIES == Len(sSpeciesToBackAnimSet)

InitSpecies ==
    /\ \E species \in 0..(NUM_SPECIES - 1) :
           sprites = [s \in SpriteIds |->
                         IdleSprite([i \in 0..7 |->
                                        IF i = 2 THEN species ELSE 0])]
    /\ gTasks = [t \in TaskIds |-> IdleTask]
    /\ sAnims = [i \in 0..(MAX_BATTLERS_COUNT - 1) |-> ZeroAnimData]
    /\ sAnimIdx = 0
    /\ sIsSummaryAnim = FALSE
    /\ phase = "tasks"
    /\ hist = [launches |-> 0, run |-> [s \in SpriteIds |-> NoRun],
               claims |-> <<>>, link |-> 0]

NextSpecies ==
    \/ \E n \in Natures :
           /\ hist.launches = 0
           /\ LaunchAnimationTaskForBackSprite(
                  1, GetSpeciesBackAnimSet(sprites[1].data[2]), n, 0)
    \/ \E g \in OutOfBoundsFunctions : RunTasks(g)
    \/ \E q \in DivByZeroQuotients : AnimateSprites(q)

SpecSpecies == InitSpecies /\ [][NextSpecies]_vars

\* The ids of row 0 of sBackAnimationIds, the horizontal vibration.
HorizontalVibrateIds == {sBackAnimationIds[m + 1] : m \in 0..2}

\* C28 (set of a species): for every species of sSpeciesToBackAnimSet,
\* GetSpeciesBackAnimSet is the stored set less one when the species has an
\* entry and 0 when it has none (BACK_ANIM_NONE); it is one of the 25 rows of
\* sBackAnimationIds, and the launch of a species without an entry gets an
\* animation of row 0, as a species stored with BACK_ANIM_H_VIBRATE does.
C28_SpeciesBackAnimSet ==
    [][hist.launches = 0 /\ hist'.launches = 1 =>
          LET species == sprites[1].data[2]
              stored == sSpeciesToBackAnimSet[species + 1]
              set == GetSpeciesBackAnimSet(species)
          IN  /\ set \in BackAnimSets
              /\ stored # BACK_ANIM_NONE => set = stored - 1
              /\ stored = BACK_ANIM_NONE => set = 0
              /\ \E n \in Natures :
                     gTasks'[Launched].tAnimId
                        = sBackAnimationIds[
                              (3 * set) + sBackAnimNatureModTable[n + 1] + 1]
              /\ stored \in {BACK_ANIM_NONE, 1} =>
                     gTasks'[Launched].tAnimId \in HorizontalVibrateIds]_vars

\* A species without an entry (252, the first after SPECIES_CELEBI) has been
\* launched and a horizontal vibration has displaced its sprite.
C28_Witness ==
    /\ hist.run[1].mode = "task"
    /\ gTasks[hist.run[1].task].isActive
    /\ gTasks[hist.run[1].task].tSpeciesId = 252
    /\ sSpeciesToBackAnimSet[252 + 1] = BACK_ANIM_NONE
    /\ hist.run[1].animId \in HorizontalVibrateIds
    /\ sprites[1].x2 # 0

-----------------------------------------------------------------------------
(* Link orders: gSprites where the vanilla link puts it and where another
   link order puts it, so that the lower half of the address of a sprite
   has its bit 15 set. *)

\* 0 is the vanilla link; with 31048 gSprites[2] is at 0x02028000, with
\* 31184 gSprites is, and with 63936 gSprites is at 0x0202FFF0 and its
\* sprites in the next 64 KiB.
LinkOffsets == {0, 31048, 31184, 63936}

AddrAnimIds == {AnimIdOf("Anim_HorizontalSlide"), AnimIdOf("Anim_VerticalSlide")}

InitAddr ==
    /\ sprites = [s \in SpriteIds |-> IdleSprite([i \in 0..7 |-> 0])]
    /\ gTasks = [t \in TaskIds |-> IdleTask]
    /\ sAnims = [i \in 0..(MAX_BATTLERS_COUNT - 1) |-> ZeroAnimData]
    /\ sAnimIdx = 0
    /\ sIsSummaryAnim = FALSE
    /\ phase = "tasks"
    /\ \E link \in LinkOffsets :
           hist = [launches |-> 0, run |-> [s \in SpriteIds |-> NoRun],
                   claims |-> <<>>, link |-> link]

NextAddr ==
    \/ \E s \in SpriteIds, a \in AddrAnimIds :
           hist.launches = 0 /\ LaunchAnimationTaskForFrontSprite(s, a)
    \/ \E g \in OutOfBoundsFunctions : RunTasks(g)
    \/ \E q \in DivByZeroQuotients : AnimateSprites(q)

SpecAddr == InitAddr /\ [][NextAddr]_vars

\* C29 (sprite reference): whatever the address of the sprite, the address
\* the task makes of tPtrHi and tPtrLo is the address of the sprite it was
\* launched for, and the sprite it steps is that sprite.
C29_RoundTrip ==
    \A s \in SpriteIds :
        hist.run[s].mode = "task" /\ gTasks[hist.run[s].task].isActive =>
            /\ AnimSpritePtr(gTasks, hist.run[s].task)
                   = Halves(SpriteAddr(s))
            /\ TaskSprite(hist.run[s].task) = s

-----------------------------------------------------------------------------
(* One sprite, an animation launched through the hosting task and left to
   run: the frames go on and the frame animation of the sprite ends at
   some time while WaitAnimEnd waits for it. *)

WaitAnimIds ==
    {AnimIdOf("Anim_HorizontalSlide"), AnimIdOf("Anim_VerticalSlide")}

NextWait ==
    \/ \E a \in WaitAnimIds :
           hist.launches = 0 /\ LaunchAnimationTaskForFrontSprite(1, a)
    \/ SpriteAnimEnds(1)
    \/ \E g \in OutOfBoundsFunctions : RunTasks(g)
    \/ \E q \in DivByZeroQuotients : AnimateSprites(q)

SpecWait ==
    /\ InitMirror
    /\ [][NextWait]_vars
    /\ WF_vars(Frame)
    /\ SF_vars(SpriteAnimEnds(1))

\* The step is the second half of a frame: the callbacks of the sprites run.
SpritesStep == phase = "sprites" /\ phase' = "tasks"

\* C30 (two stages): once WaitAnimEnd is installed, it stays installed in
\* every step but the call of it that finds the frame animation ended, and
\* that call installs SpriteCallbackDummy; and every launch through the
\* hosting task leads to SpriteCallbackDummy installed and the task
\* removed.
C30_TwoStage ==
    /\ [][\A s \in SpriteIds :
             sprites[s].callback = "WaitAnimEnd" =>
                 sprites'[s].callback =
                     IF SpritesStep /\ sprites[s].animEnded
                     THEN "SpriteCallbackDummy"
                     ELSE "WaitAnimEnd"]_vars
    /\ \A s \in SpriteIds :
           (hist.run[s].mode = "task")
               ~> (/\ hist.run[s].mode = "task"
                   /\ hist.run[s].endedBy = "WaitAnimEnd"
                   /\ sprites[s].callback = "SpriteCallbackDummy"
                   /\ ~gTasks[hist.run[s].task].isActive)

\* Anim_VerticalSlide has installed WaitAnimEnd, which has been called
\* with the frame animation ended; the task is gone.
C30_Witness ==
    /\ hist.run[1].mode = "task"
    /\ AnimOf(1) = "Anim_VerticalSlide"
    /\ hist.run[1].endedBy = "WaitAnimEnd"
    /\ sprites[1].animEnded
    /\ sprites[1].callback = "SpriteCallbackDummy"
    /\ ~gTasks[hist.run[1].task].isActive

-----------------------------------------------------------------------------
(* Two sprites and an entry of sAnims claimed again while its animation is
   in flight: sprite 1 plays Anim_RotateToSides (129 calls) while sprite 2
   plays Anim_TumblingFrontFlip (32 calls) again and again, each launched
   when the last one is over and its task gone. *)

ReuseAnimIds(s) ==
    IF s = 1
    THEN {AnimIdOf("Anim_RotateToSides")}
    ELSE {AnimIdOf("Anim_TumblingFrontFlip")}

NextReuse ==
    \/ \E s \in 1..2 : \E a \in ReuseAnimIds(s) :
           /\ hist.launches < MaxLaunches
           /\ Idle(s)
           /\ hist.run[s].mode = "none" \/ s = 2
           /\ LaunchAnimationTaskForFrontSprite(s, a)
    \/ \E s \in 1..2 : SpriteAnimEnds(s)
    \/ \E g \in OutOfBoundsFunctions : RunTasks(g)
    \/ \E q \in DivByZeroQuotients : AnimateSprites(q)

SpecReuse == InitMirror /\ [][NextReuse]_vars

\* C31 (termination under reuse): whatever claims of entries of sAnims are
\* made while it is in flight, an animation never gets MaxTicks calls of
\* its functions, and the callback its last function installs in its place
\* is WaitAnimEnd.
C31_TerminatesUnderReuse ==
    \A s \in SpriteIds :
        hist.run[s].mode = "task" =>
            /\ hist.run[s].ticks < MaxTicks
            /\ hist.run[s].endedBy \in {"none", "WaitAnimEnd"}

-----------------------------------------------------------------------------
(* sDontFlip in the course of an animation *)

\* C32 (mirrored flag): no call of a function of an animation launched
\* through the hosting task changes data[1] of the sprite, sDontFlip.
C32_DontFlipStable ==
    [][\A s \in SpriteIds :
          hist.run[s].mode = "task" /\ Called(s) =>
              sprites'[s].data[1] = sprites[s].data[1]]_vars

-----------------------------------------------------------------------------
(* The divisions of VerticalShakeTwice and VerticalShakeLowTwice *)

\* The row of sVerticalShakeData a call of the two functions reads.
ShakeRow(sprite) == At(sVerticalShakeData, sprite.data[5])

\* C33 (no division by zero): in every call of VerticalShakeTwice and of
\* VerticalShakeLowTwice that divides, which is every call on a row whose
\* first entry is not -2, the divisor, the second entry of the row, is not 0.
C33_NoDivisionByZero ==
    [][\A s \in SpriteIds :
          /\ Called(s)
          /\ sprites[s].callback
                 \in {"VerticalShakeTwice", "VerticalShakeLowTwice"}
          /\ ShakeRow(sprites[s])[1] # U8(-2)
          => ShakeRow(sprites[s])[2] # 0]_vars

-----------------------------------------------------------------------------
(* The offsets at the end of zigzag and triangle down *)

ZigzagTriangleAnims ==
    {"Anim_ZigzagFast", "Anim_ZigzagSlow", "Anim_TriangleDown_Slow",
     "Anim_TriangleDown", "Anim_TriangleDown_Fast"}

\* The step is the call of the callback of sprite s that installs WaitAnimEnd.
InstallsWaitAnimEnd(s) ==
    /\ Called(s)
    /\ sprites[s].callback # "WaitAnimEnd"
    /\ sprites'[s].callback = "WaitAnimEnd"

\* The step launches an animation on sprite s.
LaunchedOn(s) ==
    /\ hist'.launches = hist.launches + 1
    /\ hist'.run[s] # hist.run[s]
    /\ hist'.run[s].ticks = 0

\* C34 (offsets cancel): an animation of zigzag or triangle down that is
\* launched on a sprite at offset (0, 0) has x2 = 0 and y2 = 0 after the
\* call that installs WaitAnimEnd, on the sprite of the hosting task
\* (unmirrored) and on the sprite of the summary screen (mirrored).
C34_OffsetsCancel ==
    [][\A s \in SpriteIds :
          /\ LaunchedOn(s) => sprites[s].x2 = 0 /\ sprites[s].y2 = 0
          /\ /\ hist.run[s].mode # "none"
              /\ AnimOf(s) \in ZigzagTriangleAnims
              /\ InstallsWaitAnimEnd(s)
              => sprites'[s].x2 = 0 /\ sprites'[s].y2 = 0]_vars

\* The mirrored sprite has walked sZigzagData to its last row under
\* Anim_ZigzagSlow and is back at offset (0, 0).
C34_Witness ==
    /\ hist.run[2].mode = "summary"
    /\ AnimOf(2) = "Anim_ZigzagSlow"
    /\ Mirrored(sprites[2])
    /\ sprites[2].callback = "WaitAnimEnd"
    /\ sprites[2].data[3] = 9
    /\ sprites[2].x2 = 0 /\ sprites[2].y2 = 0

\* The unmirrored sprite has ended the second walk of Anim_TriangleDown_Fast.
C34_WitnessUnmirrored ==
    /\ hist.run[1].mode = "task"
    /\ AnimOf(1) = "Anim_TriangleDown_Fast"
    /\ ~Mirrored(sprites[1])
    /\ hist.run[1].endedBy = "WaitAnimEnd"
    /\ sprites[1].data[6] = 0
    /\ sprites[1].x2 = 0 /\ sprites[1].y2 = 0

-----------------------------------------------------------------------------
(* The palette at the end of the glows and the flashes *)

PaletteAnims ==
    {"Anim_GlowBlack", "Anim_GlowOrange", "Anim_GlowRed", "Anim_GlowBlue",
     "Anim_GlowYellow", "Anim_GlowPurple", "Anim_FlashYellow",
     "Anim_ShakeFlashYellow_Fast", "Anim_ShakeFlashYellow",
     "Anim_ShakeFlashYellow_Slow", "Anim_ShakeGlowRed_Fast",
     "Anim_ShakeGlowRed", "Anim_ShakeGlowRed_Slow",
     "Anim_ShakeGlowGreen_Fast", "Anim_ShakeGlowGreen",
     "Anim_ShakeGlowGreen_Slow", "Anim_ShakeGlowBlue_Fast",
     "Anim_ShakeGlowBlue", "Anim_ShakeGlowBlue_Slow",
     "Anim_ShakeGlowBlack_Slow", "Anim_ShakeGlowWhite_Slow",
     "Anim_ShakeGlowPurple_Slow"}

\* C35 (palette restored): after the call in which a glow, a yellow flash,
\* a shake with yellow flash or a shake with glow installs WaitAnimEnd, the
\* last BlendPalette request made for the sprite is one for the palette of
\* the sprite with coefficient 0.
C35_PaletteRestored ==
    [][\A s \in SpriteIds :
          /\ hist.run[s].mode # "none"
          /\ AnimOf(s) \in PaletteAnims
          /\ InstallsWaitAnimEnd(s)
          => /\ sprites'[s].blend.color # "none"
             /\ sprites'[s].blend.coeff = 0
             /\ sprites'[s].blend.palOffset
                    = (sprites'[s].paletteNum * 16) + 256]_vars

\* Anim_FlashYellow has walked sYellowFlashData to its last row and its last
\* request blends yellow with coefficient 0.
C35_Witness ==
    \E s \in SpriteIds :
        /\ hist.run[s].mode = "task"
        /\ AnimOf(s) = "Anim_FlashYellow"
        /\ hist.run[s].endedBy = "WaitAnimEnd"
        /\ sprites[s].data[6] = 13
        /\ sprites[s].blend = [palOffset |-> 288, coeff |-> 0,
                               color |-> "RGB_YELLOW"]

-----------------------------------------------------------------------------
(* The registers of the host after two tasks on one sprite *)

\* C36 (registers under a second launch): under SpecDouble the sprite has
\* data[0] = 0 and data[2] = 0 before the first launch; when a second task
\* has been launched while the animation of the first still ran and both
\* tasks have destroyed themselves, data[0] and data[2] are 0 again.
C36_RegistersRestored ==
    /\ hist.launches = 0 => sprites[1].data[0] = 0 /\ sprites[1].data[2] = 0
    /\ (/\ hist.launches = 2
        /\ \A t \in TaskIds : ~gTasks[t].isActive)
           => sprites[1].data[0] = 0 /\ sprites[1].data[2] = 0

-----------------------------------------------------------------------------
(* The frames of a delay *)

DelayFunctions ==
    {"Twist", "TumblingFrontFlip", "DeepVerticalSquishBounce",
     "HorizontalJumpsVerticalStretch_0"}

\* The step is a call of a function of DelayFunctions on sprite s while
\* delay of the sprite's entry of sAnims is not 0.
DelayCall(s) ==
    /\ Called(s)
    /\ sprites[s].callback \in DelayFunctions
    /\ sAnims[sprites[s].data[0]].delay # 0

\* C37 (delay frames): a call of Twist, TumblingFrontFlip,
\* DeepVerticalSquishBounce or HorizontalJumpsVerticalStretch_0 made while
\* delay of the sprite's entry of sAnims is not 0 takes 1 from delay and
\* changes nothing else: the other fields of the entry, the other entries
\* and the sprite, with its data, offsets, matrix and callback, stay, and
\* the call hands nothing to SetAffineData.
C37_DelayFrames ==
    [][\A s \in SpriteIds :
          DelayCall(s) =>
              /\ sAnims' = [sAnims EXCEPT
                                ![sprites[s].data[0]].delay = @ - 1]
              /\ sprites'[s] = [sprites[s] EXCEPT !.affineSet = FALSE]]_vars

\* Twist waits between its two runs: delay is between 1 and 9, runs is
\* back to 1 and data[2] is the 16 the end of the first run left.
C37_Witness ==
    \E s \in SpriteIds :
        /\ hist.run[s].mode = "task"
        /\ AnimOf(s) = "Anim_Twist_Twice"
        /\ sprites[s].callback = "Twist"
        /\ sAnims[sprites[s].data[0]].delay \in 1..9
        /\ sAnims[sprites[s].data[0]].runs = 1
        /\ sprites[s].data[2] = 16

-----------------------------------------------------------------------------
(* Anim_ZigzagSlow against Anim_ZigzagFast *)

\* Anim_ZigzagSlow on sprite 1 and Anim_ZigzagFast on sprite 2, both under
\* the hosting task or both under StartMonSummaryAnimation.
NextStutter ==
    \/ /\ hist.launches = 0
       /\ LaunchAnimationTaskForFrontSprite(1, AnimIdOf("Anim_ZigzagSlow"))
    \/ /\ hist.launches = 1 /\ hist.run[1].mode = "task"
       /\ LaunchAnimationTaskForFrontSprite(2, AnimIdOf("Anim_ZigzagFast"))
    \/ /\ hist.launches = 0
       /\ StartMonSummaryAnimation(1, AnimIdOf("Anim_ZigzagSlow"))
    \/ /\ hist.launches = 1 /\ hist.run[1].mode = "summary"
       /\ StartMonSummaryAnimation(2, AnimIdOf("Anim_ZigzagFast"))
    \/ \E s \in SpriteIds : SpriteAnimEnds(s)
    \/ \E g \in OutOfBoundsFunctions : RunTasks(g)
    \/ \E q \in DivByZeroQuotients : hist.launches = 2 /\ AnimateSprites(q)

SpecStutter == InitMirror /\ [][NextStutter]_vars

\* The sprite as the first call of Anim_ZigzagFast would find it where the
\* animation of sprite s started: the registers as the host left them under
\* StartMonSummaryAnimation, as the first step of the task leaves them
\* otherwise.
FastZigzagStart(s) ==
    LET data == IF hist.run[s].mode = "summary"
                THEN hist.run[s].host
                ELSE [i \in 0..7 |-> IF i = 1 THEN 1 ELSE 0]
    IN  Ctx([IdleSprite(data) EXCEPT !.callback = "Anim_ZigzagFast"],
            [i \in 0..(MAX_BATTLERS_COUNT - 1) |-> ZeroAnimData], 0,
            hist.run[s].mode = "summary")

\* The context after k frames of Anim_ZigzagFast from c.
RECURSIVE FastZigzagAfter(_, _)
FastZigzagAfter(c, k) ==
    IF k = 0 \/ c.sprite.callback = "WaitAnimEnd"
    THEN c
    ELSE FastZigzagAfter(RunCallback(c, 0), k - 1)

\* Sprite s is where Anim_ZigzagFast is after k frames from the same start.
AsFastZigzagAfter(s, k) ==
    LET fast == FastZigzagAfter(FastZigzagStart(s), k).sprite
    IN  /\ sprites[s].x2 = fast.x2
        /\ sprites[s].y2 = fast.y2
        /\ hist.run[s].endedBy = "WaitAnimEnd"
               <=> fast.callback = "WaitAnimEnd"

\* C38 (slow zigzag): after n frames Anim_ZigzagSlow has the offsets that
\* Anim_ZigzagFast has after (n + 1) \div 2 frames from the same start, so
\* each pair of offsets of the fast one twice in a row, and it has
\* installed WaitAnimEnd exactly if the fast one has by then; the
\* Anim_ZigzagFast that runs beside it is after n frames where the fast
\* zigzag of the comparison is.
C38_SlowIsStutteredFast ==
    \A s \in SpriteIds :
        hist.run[s].mode # "none" =>
            /\ AnimOf(s) = "Anim_ZigzagSlow" =>
                   AsFastZigzagAfter(s, (hist.run[s].ticks + 1) \div 2)
            /\ AnimOf(s) = "Anim_ZigzagFast" =>
                   AsFastZigzagAfter(s, hist.run[s].ticks)

\* Anim_ZigzagSlow has made its 20th call, a call that holds the offsets of
\* the 10th call of Anim_ZigzagFast, which are off the origin.
C38_Witness ==
    /\ hist.run[1].mode = "task"
    /\ AnimOf(1) = "Anim_ZigzagSlow"
    /\ hist.run[1].ticks = 20
    /\ sprites[1].callback = "Anim_ZigzagSlow"
    /\ sprites[1].x2 = FastZigzagAfter(FastZigzagStart(1), 10).sprite.x2
    /\ sprites[1].x2 # 0

-----------------------------------------------------------------------------
(* Anim_RotateUpSlamDown hands over to Anim_VerticalShake *)

RotateUpSlamDownFunctions ==
    {"Anim_RotateUpSlamDown", "RotateUpSlamDown_0", "RotateUpSlamDown_1",
     "RotateUpSlamDown_2"}

\* The matrix of a sprite that is neither scaled nor rotated, mirrored by
\* HandleSetAffineData where the sprite is.
NeutralMatrix(sprite) ==
    [xScale |-> IF Mirrored(sprite) THEN -256 ELSE 256, yScale |-> 256,
     rotation |-> 0]

\* C39 (chained functions): under Anim_RotateUpSlamDown no call of one of
\* its own functions installs WaitAnimEnd; the call of RotateUpSlamDown_2
\* that takes data[7] to 128 or more, and no other, installs
\* Anim_VerticalShake, with x2 = 0, y2 = 0, a neutral matrix and data[2] = 0;
\* WaitAnimEnd is installed only by a call of VerticalShake that finds
\* data[2] above 2304, on a sprite that Anim_VerticalShake was installed on
\* before.
C39_ChainedOrdering ==
    [][\A s \in SpriteIds :
          (/\ hist.run[s].mode # "none"
           /\ AnimOf(s) = "Anim_RotateUpSlamDown"
           /\ Called(s))
          => /\ sprites[s].callback \in RotateUpSlamDownFunctions
                    => sprites'[s].callback \in
                           RotateUpSlamDownFunctions
                               \cup {"Anim_VerticalShake"}
             /\ sprites'[s].callback = "Anim_VerticalShake"
                    <=> /\ sprites[s].callback = "RotateUpSlamDown_2"
                        /\ sprites[s].data[7] + 2 >= 128
             /\ sprites'[s].callback = "Anim_VerticalShake"
                    => /\ sprites'[s].x2 = 0
                       /\ sprites'[s].y2 = 0
                       /\ sprites'[s].matrix = NeutralMatrix(sprites[s])
                       /\ sprites'[s].data[2] = 0
             /\ InstallsWaitAnimEnd(s)
                    => /\ sprites[s].callback = "VerticalShake"
                       /\ sprites[s].data[2] > 2304
                       /\ "Anim_VerticalShake" \in hist.run[s].replaced]_vars

\* Anim_RotateUpSlamDown has gone through its three functions and through
\* Anim_VerticalShake, and VerticalShake has installed WaitAnimEnd.
C39_Witness ==
    \E s \in SpriteIds :
        /\ hist.run[s].mode = "task"
        /\ AnimOf(s) = "Anim_RotateUpSlamDown"
        /\ hist.run[s].endedBy = "WaitAnimEnd"
        /\ {"RotateUpSlamDown_2", "Anim_VerticalShake", "VerticalShake"}
               \subseteq hist.run[s].replaced
        /\ sprites[s].data[2] > 2304

====
